---------------------------- MODULE Spec2Model ----------------------------
(***************************************************************************)
(* Model of the two MRJob pipelines of Project-Mapreduce and of the query   *)
(* service that serves their results:                                      *)
(*   mapreduce/temperature_analysis.py    (TemperatureAnalysis)            *)
(*   mapreduce/precipitation_analysis.py  (PrecipitationAnalysis)          *)
(*   api/app.py                           (Flask application)              *)
(*                                                                         *)
(* Representation.                                                         *)
(*  - A string is a sequence of symbols.  The separator "_", the dash "-", *)
(*    the slash "/", the point "." and the decimal digits are symbols of   *)
(*    their own; any other symbol stands for a run of characters holding   *)
(*    none of them.                                                        *)
(*  - An input line is the row csv.reader yields for it: a sequence of     *)
(*    strings.                                                             *)
(*  - A measurement written without a point is held as an integer, which  *)
(*    is exact for a float holding a whole number; a precipitation written *)
(*    with a point is held as a binary64 float (section Binary64).  The    *)
(*    temperatures of the sample data are whole numbers.  A number         *)
(*    produced by round(x, 2) is held as an integer count of hundredths,   *)
(*    so 3.75 is 375.                                                      *)
(*  - sum() of floats is the work of the interpreter: CPython before 3.12  *)
(*    adds from the left, rounding after every addition; later versions    *)
(*    carry a correction term and return, for the sample data, the exact   *)
(*    sum rounded once.  The variable summation tells which one runs.      *)
(*  - json.dumps wraps a dictionary into a value tagged "json"; an error   *)
(*    message is a value tagged "text", which json.loads rejects.          *)
(***************************************************************************)
EXTENDS Integers, Sequences, FiniteSets, TLC

VARIABLES
    job,       \* which MRJob class runs: "temperature" or "precipitation"
    input,     \* the input batch: a sequence of rows
    pos,       \* number of input lines the stage-1 mapper has consumed
    shuffle1,  \* stage-1 mapper output, in arrival order: <<key, value>> pairs
    reduced1,  \* number of stage-1 keys handed to the stage-1 reducer
    out1,      \* stage-1 reducer output, input of the stage-2 mapper
    pos2,      \* number of stage-1 output records the stage-2 mapper consumed
    shuffle2,  \* stage-2 mapper output, in arrival order
    reduced2,  \* number of stage-2 keys handed to the stage-2 reducer
    output,    \* the lines written by the stage-2 reducer
    raised,    \* TRUE once an exception escaped a mapper or reducer
    summation, \* how the interpreter's sum() adds floats: "naive" or "compensated"
    app,       \* which version of api/app.py serves: "outer" or "inner"
    files,     \* the state of the three data files the service reads
    request,   \* the last request the service received
    response   \* the answer it gave: status and JSON body

pipeline_vars == <<job, input, pos, shuffle1, reduced1, out1, pos2, shuffle2,
                   reduced2, output, raised, summation>>

api_vars == <<app, files, request, response>>

vars == <<pipeline_vars, api_vars>>

-----------------------------------------------------------------------------
(* Bounds *)

\* Largest number of lines in an input batch.
MaxLines == 3

\* Largest number of lines in a batch that covers every calendar month
\* (specification SpecSeason).
MaxMonthly == 2

\* Largest number of lines in a batch of decimal precipitations
\* (specification SpecDecimal).
MaxDecimal == 4

\* Largest number of lines in a batch of days of one month with and without
\* a precipitation amount (specification SpecEmpty).
MaxEmpty == 3

\* Largest number of lines in a batch whose columns are varied
\* (specification SpecColumns).
MaxColumns == 2

\* Largest number of lines in a batch of cities whose names hold
\* underscores and digits (specification SpecKeys).
MaxKeys == 3

\* Largest number of lines in a batch of days around the turn of a year
\* (specification SpecYears).
MaxYears == 4

\* Largest number of lines in a batch that mixes lines of every kind
\* (specification SpecMixed).
MaxMixed == 3

-----------------------------------------------------------------------------
(* Strings *)

Digits == <<"0", "1", "2", "3", "4", "5", "6", "7", "8", "9">>

IsDigit(c) == \E d \in 1..10 : Digits[d] = c

DigitVal(c) == (CHOOSE d \in 1..10 : Digits[d] = c) - 1

\* str(n) / f"{n}" of a non-negative int
RECURSIVE str(_)
str(n) == IF n < 10 THEN <<Digits[n + 1]>>
          ELSE str(n \div 10) \o <<Digits[(n % 10) + 1]>>

\* f"{n:02d}"
fmt02d(n) == IF n < 10 THEN <<"0">> \o str(n) ELSE str(n)

\* TRUE iff int(s) returns; otherwise it raises ValueError
IsNumeric(s) == Len(s) > 0 /\ \A i \in 1..Len(s) : IsDigit(s[i])

\* TRUE iff float(s) returns: digits with at most one point among them
IsFloat(s) ==
    /\ \E i \in 1..Len(s) : IsDigit(s[i])
    /\ \A i \in 1..Len(s) : IsDigit(s[i]) \/ s[i] = "."
    /\ Cardinality({i \in 1..Len(s) : s[i] = "."}) <= 1

RECURSIVE int(_)
int(s) == IF Len(s) = 0 THEN 0
          ELSE 10 * int(SubSeq(s, 1, Len(s) - 1)) + DigitVal(s[Len(s)])

\* s.split(sep)
RECURSIVE split(_, _)
split(s, sep) ==
    IF \A i \in 1..Len(s) : s[i] # sep THEN <<s>>
    ELSE LET i == CHOOSE j \in 1..Len(s) :
                      s[j] = sep /\ \A k \in 1..(j - 1) : s[k] # sep
         IN  <<SubSeq(s, 1, i - 1)>> \o split(SubSeq(s, i + 1, Len(s)), sep)

\* the pieces of an f-string, joined
RECURSIVE concat(_)
concat(ss) == IF Len(ss) = 0 THEN <<>> ELSE Head(ss) \o concat(Tail(ss))

ERROR == <<"ERROR">>

-----------------------------------------------------------------------------
(* Numbers *)

RECURSIVE sum(_)
sum(xs) == IF Len(xs) = 0 THEN 0 ELSE Head(xs) + sum(Tail(xs))

max(xs) == CHOOSE x \in {xs[i] : i \in 1..Len(xs)} :
               \A i \in 1..Len(xs) : xs[i] <= x

min(xs) == CHOOSE x \in {xs[i] : i \in 1..Len(xs)} :
               \A i \in 1..Len(xs) : x <= xs[i]

\* num / den cut to 2 decimals instead of rounded
truncate2(num, den) == (100 * num) \div den

\* round(num / den, 2) in hundredths, for num >= 0 and den > 0; a tie goes
\* to the even neighbour, as Python's round does.
round2(num, den) ==
    LET q == (100 * num) \div den
        r == (100 * num) % den
    IN  IF 2 * r < den THEN q
        ELSE IF 2 * r > den THEN q + 1
        ELSE IF q % 2 = 0 THEN q ELSE q + 1


-----------------------------------------------------------------------------
(* Binary64: the arithmetic of a Python float that holds no whole number.
   A natural number is the sequence of its bits, lowest first, without
   leading zeros; a float x >= 0 is a mantissa m of MantissaBits bits and
   an exponent e with x = m * 2^e, and 0.0 has the empty mantissa.  Every
   operation rounds its exact result to the nearest float, a tie to the
   even mantissa.  The measurements are far from the largest and the
   smallest float, so overflow and subnormal numbers do not occur. *)

\* the number of mantissa bits of a float
MantissaBits == 53

\* extra quotient bits computed by a division before rounding
GuardBits == 12

RECURSIVE bits(_)
bits(n) == IF n = 0 THEN <<>> ELSE <<n % 2>> \o bits(n \div 2)

RECURSIVE to_int(_)
to_int(b) == IF Len(b) = 0 THEN 0 ELSE b[1] + 2 * to_int(Tail(b))

bit(b, i) == IF i >= 1 /\ i <= Len(b) THEN b[i] ELSE 0

\* the bits of a + b from position i upwards, c being the carry into i
RECURSIVE add_from(_, _, _, _)
add_from(a, b, i, c) ==
    IF i > Len(a) /\ i > Len(b) THEN (IF c = 1 THEN <<1>> ELSE <<>>)
    ELSE LET s == bit(a, i) + bit(b, i) + c
         IN  <<s % 2>> \o add_from(a, b, i + 1, s \div 2)

add_bits(a, b) == add_from(a, b, 1, 0)

\* a * 2^k
shl(a, k) == IF Len(a) = 0 THEN a ELSE [i \in 1..k |-> 0] \o a

\* b without its leading zeros
strip(b) ==
    IF \A i \in 1..Len(b) : b[i] = 0 THEN <<>>
    ELSE SubSeq(b, 1, CHOOSE i \in 1..Len(b) :
                          b[i] = 1 /\ \A j \in (i + 1)..Len(b) : b[j] = 0)

zero == [m |-> <<>>, e |-> 0]

\* the float nearest to b * 2^e, for b without leading zeros
round_to_float(b, e) ==
    IF Len(b) = 0 THEN zero
    ELSE IF Len(b) <= MantissaBits
         THEN [m |-> shl(b, MantissaBits - Len(b)), e |-> e - (MantissaBits - Len(b))]
    ELSE LET d      == Len(b) - MantissaBits
             kept   == SubSeq(b, d + 1, Len(b))
             sticky == \E i \in 1..(d - 1) : b[i] = 1
             up     == b[d] = 1 /\ (sticky \/ kept[1] = 1)
             r      == IF up THEN add_bits(kept, <<1>>) ELSE kept
         IN  IF Len(r) > MantissaBits
             THEN [m |-> SubSeq(r, 2, Len(r)), e |-> e + d + 1]
             ELSE [m |-> r, e |-> e + d]

\* float(k) of a natural number k
from_int(k) == round_to_float(bits(k), 0)

\* x + y
fadd(x, y) ==
    IF Len(x.m) = 0 THEN y
    ELSE IF Len(y.m) = 0 THEN x
    ELSE LET lo == IF x.e < y.e THEN x.e ELSE y.e
         IN  round_to_float(add_bits(shl(x.m, x.e - lo), shl(y.m, y.e - lo)), lo)

\* b with zeros above it, up to k bits
pad(b, k) == b \o [i \in 1..(k - Len(b)) |-> 0]

\* long division of a by n, GuardBits bits at a time: the quotient of the
\* lowest i groups of a after a remainder r of the groups above them, and
\* the last remainder
RECURSIVE divide_from(_, _, _, _)
divide_from(a, n, i, r) ==
    IF i = 0 THEN [q |-> <<>>, r |-> r]
    ELSE LET group == SubSeq(a, (i - 1) * GuardBits + 1, i * GuardBits)
             v     == r * 2^GuardBits + to_int(group)
             rest  == divide_from(a, n, i - 1, v % n)
         IN  [rest EXCEPT !.q = @ \o pad(bits(v \div n), GuardBits)]

\* x / n for a natural number 0 < n < 2^(GuardBits - 2): the quotient is
\* computed with GuardBits more bits and one bit that tells whether a
\* remainder is left, then rounded
fdiv(x, n) ==
    IF Len(x.m) = 0 THEN zero
    ELSE LET groups == (MantissaBits + GuardBits) \div GuardBits + 1
             a      == pad(shl(x.m, GuardBits), groups * GuardBits)
             qr     == divide_from(a, n, groups, 0)
         IN  round_to_float(strip(<<IF qr.r # 0 THEN 1 ELSE 0>> \o qr.q),
                            x.e - GuardBits - 1)

\* x < y
fless(x, y) ==
    IF Len(y.m) = 0 THEN FALSE
    ELSE IF Len(x.m) = 0 THEN TRUE
    ELSE IF x.e # y.e THEN x.e < y.e
    ELSE \E i \in 1..MantissaBits :
            /\ x.m[i] < y.m[i]
            /\ \A j \in (i + 1)..MantissaBits : x.m[j] = y.m[j]

\* sum(xs) of floats: 0 + xs[0] + xs[1] + ..., added from the left
RECURSIVE fsum_from(_, _, _)
fsum_from(xs, i, acc) ==
    IF i > Len(xs) THEN acc ELSE fsum_from(xs, i + 1, fadd(acc, xs[i]))

fsum(xs) == fsum_from(xs, 1, zero)

\* the exact sum of xs[i], xs[i+1], ... in units of 2^lo
RECURSIVE exact_from(_, _, _)
exact_from(xs, i, lo) ==
    IF i > Len(xs) THEN <<>>
    ELSE add_bits(shl(xs[i].m, xs[i].e - lo), exact_from(xs, i + 1, lo))

\* sum(xs) of floats with the correction term carried along: the exact
\* sum, rounded once
fsum_exact(xs) ==
    LET nonzero == {i \in 1..Len(xs) : Len(xs[i].m) > 0}
    IN  IF nonzero = {} THEN zero
        ELSE LET lo == CHOOSE e \in {xs[i].e : i \in nonzero} :
                           \A i \in nonzero : e <= xs[i].e
             IN  round_to_float(strip(exact_from(xs, 1, lo)), lo)

\* sum(xs) of floats, as the running interpreter computes it
sum_floats(xs) == IF summation = "naive" THEN fsum(xs) ELSE fsum_exact(xs)

\* float(s) of a string with a point: the float nearest to the decimal
\* number, which is the quotient of its digits by a power of ten
binary64(s) ==
    LET p     == split(s, ".")
        whole == p[1]
        frac  == IF Len(p) > 1 THEN p[2] ELSE <<>>
    IN  fdiv(from_int(int(whole \o frac)), 10^Len(frac))

fmax(xs) == CHOOSE x \in {xs[i] : i \in 1..Len(xs)} :
                \A i \in 1..Len(xs) : ~fless(x, xs[i])

\* round(x, 2) in hundredths: the integer nearest to the exact value of
\* 100 * x, a tie to the even one
fround2(x) ==
    LET h     == add_bits(add_bits(shl(x.m, 6), shl(x.m, 5)), shl(x.m, 2))
        f     == 0 - x.e
        whole == to_int(SubSeq(h, f + 1, Len(h)))
        rest  == \E i \in 1..(f - 1) : bit(h, i) = 1
    IN  IF x.e >= 0 THEN to_int(shl(h, x.e))
        ELSE IF bit(h, f) = 1 /\ (rest \/ whole % 2 = 1) THEN whole + 1
        ELSE whole

-----------------------------------------------------------------------------
(* Input lines *)

\* no line taken for the header
never_header(line) == FALSE

\* line.startswith('time,temperature')
is_header(line) ==
    /\ Len(line) >= 2
    /\ line[1] = <<"time">>
    /\ Len(line[2]) >= 1
    /\ line[2][1] = "temperature"

\* float(s) of a field float() accepts
float(s) == IF IsNumeric(s) THEN int(s) ELSE binary64(s)

\* how a field's number is held: "num" for an integer, "bin" for a float
number_kind(s) == IF s = <<>> \/ IsNumeric(s) THEN "num" ELSE "bin"

is_leap(y) == (y % 4 = 0 /\ y % 100 # 0) \/ y % 400 = 0

days_in_month(y, m) ==
    IF m = 2 THEN (IF is_leap(y) THEN 29 ELSE 28)
    ELSE IF m \in {4, 6, 9, 11} THEN 30 ELSE 31

\* TRUE iff datetime.strptime(s, '%Y-%m-%d') returns (else ValueError)
strptime_ok(s) ==
    LET p == split(s, "-")
    IN  /\ Len(p) = 3
        /\ \A i \in 1..3 : IsNumeric(p[i])
        /\ Len(p[1]) = 4
        /\ Len(p[2]) \in 1..2
        /\ Len(p[3]) \in 1..2
        /\ int(p[1]) >= 1
        /\ int(p[2]) \in 1..12
        /\ int(p[3]) \in 1..days_in_month(int(p[1]), int(p[2]))

\* date_obj.year and date_obj.month of a date string strptime accepts
date_year(s) == int(split(s, "-")[1])
date_month(s) == int(split(s, "-")[2])

\* a stage-1 key without the year
month_key_without_year(city, year, month) ==
    concat(<<city, <<"_">>, fmt02d(month)>>)

\* f"{city}_{year}_{month:02d}"
month_key(city, year, month) ==
    concat(<<city, <<"_">>, str(year), <<"_">>, fmt02d(month)>>)

json_dumps(d) == [t |-> "json", d |-> d]
json_loads_ok(v) == v.t = "json"
error_text(msg) == [t |-> "text", msg |-> msg]

-----------------------------------------------------------------------------
(* TemperatureAnalysis *)

\* a short row padded with empty fields instead of dropped
mapper_parse_data_padding(line) ==
    LET row == IF Len(line) < 8
               THEN line \o [i \in 1..(8 - Len(line)) |-> <<>>] ELSE line
    IN  IF is_header(row) THEN <<>>
        ELSE IF \E i \in 2..4 : row[i] # <<>> /\ ~IsFloat(row[i])
             THEN <<[key |-> ERROR, value |-> error_text("Error processing line")]>>
        ELSE IF \E i \in 2..4 : row[i] = <<>> THEN <<>>
        ELSE IF ~strptime_ok(row[1])
             THEN <<[key |-> ERROR, value |-> error_text("Error processing line")]>>
        ELSE <<[key   |-> month_key(row[8], date_year(row[1]), date_month(row[1])),
                value |-> json_dumps([temp_max  |-> float(row[2]),
                                      temp_min  |-> float(row[3]),
                                      temp_mean |-> float(row[4]),
                                      count     |-> 1])]>>

\* a temperature of 0 taken for a missing one
mapper_parse_data_truthy(line) ==
    IF is_header(line) THEN <<>>
    ELSE IF Len(line) < 8 THEN <<>>
    ELSE IF \E i \in 2..4 : line[i] # <<>> /\ ~IsFloat(line[i])
         THEN <<[key |-> ERROR, value |-> error_text("Error processing line")]>>
    ELSE IF \E i \in 2..4 : line[i] = <<>> \/ float(line[i]) = 0 THEN <<>>
    ELSE IF ~strptime_ok(line[1])
         THEN <<[key |-> ERROR, value |-> error_text("Error processing line")]>>
    ELSE <<[key   |-> month_key(line[8], date_year(line[1]), date_month(line[1])),
            value |-> json_dumps([temp_max  |-> float(line[2]),
                                  temp_min  |-> float(line[3]),
                                  temp_mean |-> float(line[4]),
                                  count     |-> 1])]>>

mapper_parse_data(line) ==
    IF is_header(line) THEN <<>>
    ELSE IF Len(line) < 8 THEN <<>>
    ELSE IF \E i \in 2..4 : line[i] # <<>> /\ ~IsFloat(line[i])
         THEN <<[key |-> ERROR, value |-> error_text("Error processing line")]>>
    ELSE IF \E i \in 2..4 : line[i] = <<>> THEN <<>>
    ELSE IF ~strptime_ok(line[1])
         THEN <<[key |-> ERROR, value |-> error_text("Error processing line")]>>
    ELSE <<[key   |-> month_key(line[8], date_year(line[1]), date_month(line[1])),
            value |-> json_dumps([temp_max  |-> float(line[2]),
                                  temp_min  |-> float(line[3]),
                                  temp_mean |-> float(line[4]),
                                  count     |-> 1])]>>

\* the group of error records passed on instead of dropped
reducer_aggregate_temps_keeps_errors(key, values) ==
    IF key = ERROR THEN <<[key |-> key, value |-> values[1]]>>
    ELSE
      LET loaded == SelectSeq(values, json_loads_ok)
          temp_max_list  == [i \in 1..Len(loaded) |-> loaded[i].d.temp_max]
          temp_min_list  == [i \in 1..Len(loaded) |-> loaded[i].d.temp_min]
          temp_mean_list == [i \in 1..Len(loaded) |-> loaded[i].d.temp_mean]
          total_days == sum([i \in 1..Len(loaded) |-> loaded[i].d.count])
      IN  IF Len(temp_max_list) = 0 THEN <<>>
          ELSE <<[key   |-> key,
                  value |-> json_dumps(
                     [city_year_month   |-> key,
                      avg_temp_max      |-> round2(sum(temp_max_list), Len(temp_max_list)),
                      avg_temp_min      |-> round2(sum(temp_min_list), Len(temp_min_list)),
                      avg_temp_mean     |-> round2(sum(temp_mean_list), Len(temp_mean_list)),
                      max_temp_recorded |-> round2(max(temp_max_list), 1),
                      min_temp_recorded |-> round2(min(temp_min_list), 1),
                      total_days        |-> total_days])]>>

reducer_aggregate_temps(key, values) ==
    IF key = ERROR THEN <<>>
    ELSE
      LET loaded == SelectSeq(values, json_loads_ok)
          temp_max_list  == [i \in 1..Len(loaded) |-> loaded[i].d.temp_max]
          temp_min_list  == [i \in 1..Len(loaded) |-> loaded[i].d.temp_min]
          temp_mean_list == [i \in 1..Len(loaded) |-> loaded[i].d.temp_mean]
          total_days == sum([i \in 1..Len(loaded) |-> loaded[i].d.count])
      IN  IF Len(temp_max_list) = 0 THEN <<>>
          ELSE <<[key   |-> key,
                  value |-> json_dumps(
                     [city_year_month   |-> key,
                      avg_temp_max      |-> round2(sum(temp_max_list), Len(temp_max_list)),
                      avg_temp_min      |-> round2(sum(temp_min_list), Len(temp_min_list)),
                      avg_temp_mean     |-> round2(sum(temp_mean_list), Len(temp_mean_list)),
                      max_temp_recorded |-> round2(max(temp_max_list), 1),
                      min_temp_recorded |-> round2(min(temp_min_list), 1),
                      total_days        |-> total_days])]>>

MonthNames == <<"January", "February", "March", "April", "May", "June", "July",
                "August", "September", "October", "November", "December">>

\* TRUE iff datetime(year, month, 1) is a date
datetime_ok(year, month) == year \in 1..9999 /\ month \in 1..12

mapper_format_output(key, value) ==
    IF key = ERROR THEN <<>>
    ELSE
      LET parts == split(key, "_")
          failed == <<[key |-> ERROR, value |-> error_text("Format error")]>>
      IN  IF ~json_loads_ok(value) THEN failed
          ELSE IF Len(parts) # 3 THEN failed
          ELSE IF ~IsNumeric(parts[2]) \/ ~IsNumeric(parts[3]) THEN failed
          ELSE IF ~datetime_ok(int(parts[2]), int(parts[3])) THEN failed
          ELSE <<[key   |-> concat(<<parts[1], <<"_">>, parts[2]>>),
                  value |-> json_dumps(
                     [city              |-> parts[1],
                      year              |-> int(parts[2]),
                      month             |-> int(parts[3]),
                      month_name        |-> MonthNames[int(parts[3])],
                      city_year_month   |-> value.d.city_year_month,
                      avg_temp_max      |-> value.d.avg_temp_max,
                      avg_temp_min      |-> value.d.avg_temp_min,
                      avg_temp_mean     |-> value.d.avg_temp_mean,
                      max_temp_recorded |-> value.d.max_temp_recorded,
                      min_temp_recorded |-> value.d.min_temp_recorded,
                      total_days        |-> value.d.total_days])]>>

\* the list left in arrival order
unsorted(xs) == xs

\* xs.sort(key=lambda x: x['month']): stable, ascending
RECURSIVE sort_by_month(_)
sort_by_month(xs) ==
    IF Len(xs) <= 1 THEN xs
    ELSE LET x    == xs[Len(xs)]
             rest == sort_by_month(SubSeq(xs, 1, Len(xs) - 1))
             n    == Cardinality({i \in 1..Len(rest) : rest[i].month <= x.month})
         IN  SubSeq(rest, 1, n) \o <<x>> \o SubSeq(rest, n + 1, Len(rest))

temperature_csv_line(data) ==
    [city              |-> data.city,
     year              |-> data.year,
     month             |-> fmt02d(data.month),
     month_name        |-> data.month_name,
     avg_temp_max      |-> data.avg_temp_max,
     avg_temp_min      |-> data.avg_temp_min,
     avg_temp_mean     |-> data.avg_temp_mean,
     max_temp_recorded |-> data.max_temp_recorded,
     min_temp_recorded |-> data.min_temp_recorded,
     total_days        |-> data.total_days]

reducer_final_output(key, values) ==
    IF key = ERROR THEN <<>>
    ELSE
      LET loaded    == SelectSeq(values, json_loads_ok)
          city_data == sort_by_month([i \in 1..Len(loaded) |-> loaded[i].d])
      IN  [i \in 1..Len(city_data) |-> temperature_csv_line(city_data[i])]

-----------------------------------------------------------------------------
(* PrecipitationAnalysis *)

Verano == <<"Verano">>
Transicion == <<"Transición">>
Invierno == <<"Invierno">>
Lluvias_Tardias == <<"Lluvias", "_", "Tardías">>

\* December left out of the first bucket
get_season_december_late(month) ==
    IF month \in {1, 2} THEN Verano
    ELSE IF month \in {3, 4, 5} THEN Transicion
    ELSE IF month \in {6, 7, 8} THEN Invierno
    ELSE Lluvias_Tardias

get_season(month) ==
    IF month \in {12, 1, 2} THEN Verano
    ELSE IF month \in {3, 4, 5} THEN Transicion
    ELSE IF month \in {6, 7, 8} THEN Invierno
    ELSE Lluvias_Tardias

\* a precipitation that is no number taken as 0.0, like an empty one
mapper_parse_precipitation_lenient(line) ==
    IF is_header(line) THEN <<>>
    ELSE IF Len(line) < 8 THEN <<>>
    ELSE IF ~strptime_ok(line[1])
         THEN <<[key |-> ERROR, value |-> error_text("Parse error")]>>
    ELSE <<[key   |-> month_key(line[8], date_year(line[1]), date_month(line[1])),
            value |-> IF IsFloat(line[5])
                      THEN [t |-> number_kind(line[5]), v |-> float(line[5])]
                      ELSE [t |-> "num", v |-> 0]]>>

\* the temperatures parsed too, as the temperature job does
mapper_parse_precipitation_reads_temperatures(line) ==
    IF is_header(line) THEN <<>>
    ELSE IF Len(line) < 8 THEN <<>>
    ELSE IF line[5] # <<>> /\ ~IsFloat(line[5])
         THEN <<[key |-> ERROR, value |-> error_text("Parse error")]>>
    ELSE IF \E i \in 2..4 : line[i] # <<>> /\ ~IsFloat(line[i])
         THEN <<[key |-> ERROR, value |-> error_text("Parse error")]>>
    ELSE IF ~strptime_ok(line[1])
         THEN <<[key |-> ERROR, value |-> error_text("Parse error")]>>
    ELSE <<[key   |-> month_key(line[8], date_year(line[1]), date_month(line[1])),
            value |-> [t |-> number_kind(line[5]),
                       v |-> IF line[5] # <<>> THEN float(line[5]) ELSE 0]]>>

\* a line without a precipitation amount excluded
mapper_parse_precipitation_requires_amount(line) ==
    IF is_header(line) THEN <<>>
    ELSE IF Len(line) < 8 THEN <<>>
    ELSE IF line[5] = <<>> THEN <<>>
    ELSE IF ~IsFloat(line[5])
         THEN <<[key |-> ERROR, value |-> error_text("Parse error")]>>
    ELSE IF ~strptime_ok(line[1])
         THEN <<[key |-> ERROR, value |-> error_text("Parse error")]>>
    ELSE <<[key   |-> month_key(line[8], date_year(line[1]), date_month(line[1])),
            value |-> [t |-> number_kind(line[5]), v |-> float(line[5])]]>>

mapper_parse_precipitation(line) ==
    IF is_header(line) THEN <<>>
    ELSE IF Len(line) < 8 THEN <<>>
    ELSE IF line[5] # <<>> /\ ~IsFloat(line[5])
         THEN <<[key |-> ERROR, value |-> error_text("Parse error")]>>
    ELSE IF ~strptime_ok(line[1])
         THEN <<[key |-> ERROR, value |-> error_text("Parse error")]>>
    ELSE <<[key   |-> month_key(line[8], date_year(line[1]), date_month(line[1])),
            value |-> [t |-> number_kind(line[5]),
                       v |-> IF line[5] # <<>> THEN float(line[5]) ELSE 0]]>>

\* v > 0: a day with rain
rainy_at_least_zero(v) == v >= 0

rainy(v) == v > 0

\* the "ERROR" key summed like any other
reducer_monthly_totals_raises_on_errors(key, values) ==
    \E i \in 1..Len(values) : values[i].t \notin {"num", "bin"}

\* sum(daily_values) raises TypeError on a value that is no number
reducer_monthly_totals_raises(key, values) ==
    key # ERROR /\ \E i \in 1..Len(values) : values[i].t \notin {"num", "bin"}

\* reducer_monthly_totals on values of which one at least is no whole number
reducer_monthly_totals_floats(key, values) ==
    LET daily_values   == [i \in 1..Len(values) |->
                              IF values[i].t = "num" THEN from_int(values[i].v)
                              ELSE values[i].v]
        monthly_total  == sum_floats(daily_values)
        days_with_rain == Cardinality({i \in 1..Len(daily_values) :
                                          fless(zero, daily_values[i])})
        max_daily      == fmax(daily_values)
        avg_daily      == fdiv(monthly_total, Len(daily_values))
    IN  <<[key   |-> key,
           value |-> json_dumps(
              [monthly_total           |-> fround2(monthly_total),
               days_with_rain          |-> days_with_rain,
               max_daily_precipitation |-> fround2(max_daily),
               avg_daily_precipitation |-> fround2(avg_daily),
               total_days              |-> Len(daily_values)])]>>

\* one statistic for every day instead of one for the month
reducer_monthly_totals_per_day(key, values) ==
    IF key = ERROR THEN <<>>
    ELSE [i \in 1..Len(values) |->
            [key   |-> key,
             value |-> json_dumps(
                [monthly_total           |-> round2(values[i].v, 1),
                 days_with_rain          |-> IF rainy(values[i].v) THEN 1 ELSE 0,
                 max_daily_precipitation |-> round2(values[i].v, 1),
                 avg_daily_precipitation |-> round2(values[i].v, 1),
                 total_days              |-> 1])]]

reducer_monthly_totals(key, values) ==
    IF key = ERROR \/ reducer_monthly_totals_raises(key, values) THEN <<>>
    ELSE IF \E i \in 1..Len(values) : values[i].t = "bin"
         THEN reducer_monthly_totals_floats(key, values)
    ELSE
      LET daily_values   == [i \in 1..Len(values) |-> values[i].v]
          monthly_total  == sum(daily_values)
          days_with_rain == Cardinality({i \in 1..Len(daily_values) :
                                            rainy(daily_values[i])})
          max_daily      == IF Len(daily_values) > 0 THEN max(daily_values) ELSE 0
          avg_daily      == IF Len(daily_values) > 0
                            THEN round2(monthly_total, Len(daily_values)) ELSE 0
      IN  <<[key   |-> key,
             value |-> json_dumps(
                [monthly_total           |-> round2(monthly_total, 1),
                 days_with_rain          |-> days_with_rain,
                 max_daily_precipitation |-> round2(max_daily, 1),
                 avg_daily_precipitation |-> avg_daily,
                 total_days              |-> Len(daily_values)])]>>

\* the seasonal key without the year
seasonal_key_without_year(city, season, year) == concat(<<city, <<"_">>, season>>)

\* f"{city}_{season}_{year}"
seasonal_key(city, season, year) ==
    concat(<<city, <<"_">>, season, <<"_">>, year>>)

\* {**a, **b}: the keys of both, with the value of b where both have the key
dict_merge(a, b) ==
    [k \in DOMAIN a \cup DOMAIN b |-> IF k \in DOMAIN b THEN b[k] ELSE a[k]]

\* total_days set to the days of the calendar month
mapper_add_season_recounts(key, value) ==
    IF key = ERROR THEN <<>>
    ELSE
      LET parts == split(key, "_")
          failed == <<[key |-> ERROR, value |-> error_text("Season mapping error")]>>
      IN  IF ~json_loads_ok(value) THEN failed
          ELSE IF Len(parts) # 3 THEN failed
          ELSE IF ~IsNumeric(parts[3]) \/ ~IsNumeric(parts[2]) THEN failed
          ELSE <<[key   |-> seasonal_key(parts[1], get_season(int(parts[3])), parts[2]),
                  value |-> json_dumps(dict_merge(
                     dict_merge(value.d,
                                [total_days |-> days_in_month(int(parts[2]),
                                                              int(parts[3]))]),
                     [city   |-> parts[1],
                      year   |-> int(parts[2]),
                      month  |-> int(parts[3]),
                      season |-> get_season(int(parts[3]))]))]>>

\* December counted with the January and February that follow it
mapper_add_season_december_ahead(key, value) ==
    IF key = ERROR THEN <<>>
    ELSE
      LET parts == split(key, "_")
          failed == <<[key |-> ERROR, value |-> error_text("Season mapping error")]>>
      IN  IF ~json_loads_ok(value) THEN failed
          ELSE IF Len(parts) # 3 THEN failed
          ELSE IF ~IsNumeric(parts[3]) \/ ~IsNumeric(parts[2]) THEN failed
          ELSE LET year == IF int(parts[3]) = 12 THEN int(parts[2]) + 1
                           ELSE int(parts[2])
               IN  <<[key   |-> seasonal_key(parts[1], get_season(int(parts[3])),
                                             str(year)),
                      value |-> json_dumps(dict_merge(
                         [city   |-> parts[1],
                          year   |-> year,
                          month  |-> int(parts[3]),
                          season |-> get_season(int(parts[3]))],
                         value.d))]>>

mapper_add_season(key, value) ==
    IF key = ERROR THEN <<>>
    ELSE
      LET parts == split(key, "_")
          failed == <<[key |-> ERROR, value |-> error_text("Season mapping error")]>>
      IN  IF ~json_loads_ok(value) THEN failed
          ELSE IF Len(parts) # 3 THEN failed
          ELSE IF ~IsNumeric(parts[3]) \/ ~IsNumeric(parts[2]) THEN failed
          ELSE <<[key   |-> seasonal_key(parts[1], get_season(int(parts[3])), parts[2]),
                  value |-> json_dumps(dict_merge(
                     [city   |-> parts[1],
                      year   |-> int(parts[2]),
                      month  |-> int(parts[3]),
                      season |-> get_season(int(parts[3]))],
                     value.d))]>>

\* round(x, 2) of x = num / den where num is already a count of hundredths
round2h(num, den) ==
    LET q == num \div den
        r == num % den
    IN  IF 2 * r < den THEN q
        ELSE IF 2 * r > den THEN q + 1
        ELSE IF q % 2 = 0 THEN q ELSE q + 1

\* the divisor of avg_monthly: len(seasonal_data)
nominal_season_length(seasonal_data) == Cardinality({12, 1, 2})

months_present(seasonal_data) == Len(seasonal_data)

reducer_seasonal_analysis(key, values) ==
    IF key = ERROR THEN <<>>
    ELSE
      LET loaded        == SelectSeq(values, json_loads_ok)
          seasonal_data == [i \in 1..Len(loaded) |-> loaded[i].d]
          monthly       == [i \in 1..Len(seasonal_data) |-> seasonal_data[i].monthly_total]
          rain_days     == [i \in 1..Len(seasonal_data) |-> seasonal_data[i].days_with_rain]
          total_precipitation == sum(monthly)
      IN  IF Len(seasonal_data) = 0 THEN <<>>
          ELSE <<[city   |-> seasonal_data[1].city,
                  year   |-> seasonal_data[1].year,
                  season |-> seasonal_data[1].season,
                  total_seasonal_precipitation |-> round2h(total_precipitation, 1),
                  avg_monthly_precipitation    |->
                      round2h(total_precipitation, months_present(seasonal_data)),
                  max_monthly_precipitation    |-> round2h(max(monthly), 1),
                  total_rainy_days             |-> sum(rain_days),
                  months_in_season             |-> Len(seasonal_data)]>>

-----------------------------------------------------------------------------
(* Sample data *)

\* a date in the format of the "time" column
Date(y, m, d) == concat(<<str(y), <<"-">>, fmt02d(m), <<"-">>, fmt02d(d)>>)

\* a row of the input file: time, temperature_2m_max, temperature_2m_min,
\* temperature_2m_mean, precipitation_sum, windspeed_10m_max,
\* sunshine_duration, city
Row(time, tmax, tmin, tmean, precip, city) ==
    <<time, tmax, tmin, tmean, precip, <<"9">>, <<"7">>, city>>

Bogota == <<"Bogotá">>
San_Jose == <<"San", "_", "Jose">>

HeaderLine ==
    <<<<"time">>, <<"temperature", "_", "2", "m", "_", "max">>,
      <<"temperature", "_", "2", "m", "_", "min">>,
      <<"temperature", "_", "2", "m", "_", "mean">>,
      <<"precipitation", "_", "sum">>, <<"windspeed", "_", "1", "0", "m", "_", "max">>,
      <<"sunshine", "_", "duration">>, <<"city">>>>

\* The lines input batches are drawn from: daily records of two cities over
\* several months, seasons and years, and one line of each malformed kind.
SampleLines ==
    { Row(Date(2023, 1, 1), str(30), str(0), str(25), str(0), Bogota),
      Row(Date(2023, 1, 2), str(31), str(18), str(24), str(5), Bogota),
      Row(Date(2023, 2, 1), str(28), str(19), str(23), str(10), Bogota),
      \* no mean temperature and no precipitation
      Row(Date(2023, 12, 1), str(26), str(15), <<>>, <<>>, Bogota),
      Row(Date(2024, 1, 1), str(29), str(17), str(22), str(5), Bogota),
      Row(Date(2023, 1, 3), str(33), str(21), str(27), str(5), San_Jose),
      \* only 6 fields
      <<Date(2023, 1, 4), str(35), str(22), str(28), str(10), <<"9">>>>,
      \* a temperature and a precipitation that are no numbers
      Row(Date(2023, 1, 5), <<"x">>, str(20), str(25), <<"x">>, Bogota),
      \* a date in another format
      Row(<<"2", "0", "2", "3", "/", "0", "1", "/", "0", "6">>,
          str(34), str(20), str(27), str(10), Bogota) }

\* the first two columns of the header line alone
ShortHeaderLine == SubSeq(HeaderLine, 1, 2)

\* One well-formed line for each month of 2023, the header line of the
\* input file and a header line cut short.
MonthLines ==
    { Row(Date(2023, m, 1), str(30), str(20), str(25), str(5), Bogota) : m \in 1..12 }
        \cup {HeaderLine, ShortHeaderLine}

\* a decimal number with one digit after the point
Decimal(whole, tenths) == str(whole) \o <<".">> \o str(tenths)

\* Four days of one month with precipitations 0.0, 0.1, 0.2 and 0.4.
DecimalLines ==
    { Row(Date(2023, 1, 1), str(30), str(20), str(25), Decimal(0, 0), Bogota),
      Row(Date(2023, 1, 2), str(30), str(20), str(25), Decimal(0, 1), Bogota),
      Row(Date(2023, 1, 3), str(30), str(20), str(25), Decimal(0, 2), Bogota),
      Row(Date(2023, 1, 4), str(30), str(20), str(25), Decimal(0, 4), Bogota) }

\* Four days of one month: with rain, without a precipitation amount, with
\* an amount that is no number, and with the amount 0.
EmptyLines ==
    { Row(Date(2023, 1, 1), str(30), str(20), str(25), str(5), Bogota),
      Row(Date(2023, 1, 2), str(30), str(20), str(25), <<>>, Bogota),
      Row(Date(2023, 1, 3), str(30), str(20), str(25), <<"x">>, Bogota),
      Row(Date(2023, 1, 4), str(30), str(20), str(25), str(0), Bogota) }

\* A complete record, a record without mean temperature whose precipitation
\* is no number, a record without precipitation whose maximum temperature
\* is no number, and the header line.
ColumnLines ==
    { Row(Date(2023, 1, 1), str(30), str(20), str(25), str(5), Bogota),
      Row(Date(2023, 1, 2), str(31), str(18), <<>>, <<"x">>, Bogota),
      Row(Date(2023, 2, 1), <<"x">>, str(19), str(23), <<>>, Bogota),
      HeaderLine }

\* city names that hold the separator and the digits of the stage-1 key
X_city == <<"X">>
X_2023 == <<"X", "_", "2", "0", "2", "3">>
City_2023 == <<"2", "0", "2", "3">>

\* Two days of one month of a city, the same month of another year, a day
\* of each city whose name holds an underscore or digits, and the header.
KeyLines ==
    { Row(Date(2023, 1, 1), str(30), str(20), str(25), str(5), X_city),
      Row(Date(2023, 1, 2), str(31), str(18), str(24), str(0), X_city),
      Row(Date(2024, 1, 1), str(29), str(17), str(22), str(5), X_city),
      Row(Date(2023, 1, 1), str(28), str(19), str(23), str(10), X_2023),
      Row(Date(2023, 1, 1), str(33), str(21), str(27), str(5), City_2023),
      HeaderLine }

\* A day of December, January, February and March of one year and a day of
\* January of the next.
YearLines ==
    { Row(Date(2023, 12, 1), str(26), str(15), str(21), str(5), Bogota),
      Row(Date(2023, 1, 1), str(30), str(20), str(25), str(10), Bogota),
      Row(Date(2023, 2, 1), str(28), str(19), str(23), str(0), Bogota),
      Row(Date(2023, 3, 1), str(27), str(18), str(22), str(5), Bogota),
      Row(Date(2024, 1, 1), str(29), str(17), str(22), str(5), Bogota) }

\* Lines of every kind a batch can mix: valid records of one month, of
\* another season and of a city with an underscore in its name, a record
\* whose numbers are no numbers, the header line and a line of 6 fields.
MixedLines ==
    { Row(Date(2023, 1, 1), str(30), str(20), str(25), str(5), Bogota),
      Row(Date(2023, 1, 2), str(31), str(18), str(24), str(0), Bogota),
      Row(Date(2023, 6, 1), str(28), str(19), str(23), str(10), Bogota),
      Row(Date(2023, 1, 3), str(33), str(21), str(27), str(5), San_Jose),
      Row(Date(2023, 1, 5), <<"x">>, str(20), str(25), <<"x">>, Bogota),
      HeaderLine,
      <<Date(2023, 1, 4), str(35), str(22), str(28), str(10), <<"9">>>> }

SeqsUpTo(S, n) == UNION {[1..k -> S] : k \in 0..n}

-----------------------------------------------------------------------------
(* The query service: api/app.py, which the repository holds in two
   versions, here "outer" (proyecto-mapreduce/api/app.py) and "inner"
   (proyecto-mapreduce/proyecto-mapreduce/api/app.py).

   A string of a request or of a table is a sequence of characters.  The
   parameters of a request are a function from the names that are supplied
   to their strings.  A data file is absent, empty (no bytes), unreadable
   or present with the rows of a table in the format its reader expects.
   A DataFrame is the sequence of its rows.  The timestamp, the file paths
   and the echo of the parameters are left out of the bodies. *)

FileNames == <<"temperature", "precipitation", "raw">>

Bogota_city == <<"B", "o", "g", "o", "t", "a">>
Cali_city == <<"C", "a", "l", "i">>
Verano_season == <<"V", "e", "r", "a", "n", "o">>
Invierno_season == <<"I", "n", "v", "i", "e", "r", "n", "o">>

\* temperature_results.csv: rows of the temperature job
TemperatureTable ==
    << [city |-> Bogota_city, year |-> 2023, number_month |-> 1, avg_max_temp |-> 1950],
       [city |-> Cali_city, year |-> 2023, number_month |-> 1, avg_max_temp |-> 3010],
       [city |-> Bogota_city, year |-> 2024, number_month |-> 2, avg_max_temp |-> 2000] >>

\* precipitation_results.csv: rows of the precipitation job
PrecipitationTable ==
    << [city |-> Bogota_city, year |-> 2023, season |-> Verano_season,
        total_precipitation |-> 1250],
       [city |-> Cali_city, year |-> 2023, season |-> Invierno_season,
        total_precipitation |-> 30000],
       [city |-> Bogota_city, year |-> 2024, season |-> Verano_season,
        total_precipitation |-> 900] >>

\* weather_data.csv: the downloaded daily records
RawTable ==
    << [city |-> Bogota_city, time |-> Date(2023, 1, 1)],
       [city |-> Cali_city, time |-> Date(2023, 1, 1)] >>

Tables == [temperature |-> TemperatureTable, precipitation |-> PrecipitationTable,
           raw |-> RawTable]

\* the states of the file of one table
FileStates(table) ==
    {[state |-> s, rows |-> <<>>] : s \in {"absent", "empty", "unreadable"}}
        \cup {[state |-> "present", rows |-> table]}

\* os.path.exists(file)
exists(f) == f.state # "absent"

\* TRUE iff pd.read_csv(file) raises: EmptyDataError on a file without
\* bytes, an OSError or a UnicodeError on one that cannot be read
read_csv_raises(f) == f.state \in {"empty", "unreadable"}

\* pd.read_csv(file) if the file exists, else pd.DataFrame()
read_frame(f) == IF exists(f) THEN f.rows ELSE <<>>

\* load_data of the outer version: one try block for each file, with an
\* empty DataFrame where reading raised
load_data_outer(fs) ==
    [k \in {FileNames[i] : i \in 1..Len(FileNames)} |->
        IF exists(fs[k]) /\ read_csv_raises(fs[k]) THEN <<>> ELSE read_frame(fs[k])]

\* load_data of the inner version: one try block around the three reads,
\* so the first read that raises leaves its key and the later ones unset
load_data_inner(fs) ==
    LET raising == {i \in 1..Len(FileNames) : read_csv_raises(fs[FileNames[i]])}
        loaded  == {i \in 1..Len(FileNames) : \A j \in raising : i < j}
    IN  [k \in {FileNames[i] : i \in loaded} |-> read_frame(fs[k])]

load_data(a, fs) == IF a = "outer" THEN load_data_outer(fs) ELSE load_data_inner(fs)

\* the 500 answer Flask gives when a handler lets an exception escape
internal_error(a) ==
    [status |-> 500,
     body   |-> [error |-> IF a = "outer" THEN "Internal server error"
                           ELSE "Error interno del servidor"]]

\* df.empty
empty(df) == Len(df) = 0

file_status(df) == [exists |-> ~empty(df), records |-> IF ~empty(df) THEN Len(df) ELSE 0]

health(a, fs) ==
    LET data == load_data(a, fs)
    IN  IF \E i \in 1..Len(FileNames) : FileNames[i] \notin DOMAIN data
        THEN internal_error(a)
        ELSE [status |-> 200,
              body   |-> [api_status |-> "online",
                          files |-> [temperature_results   |-> file_status(data["temperature"]),
                                     precipitation_results |-> file_status(data["precipitation"]),
                                     raw_data              |-> file_status(data["raw"])]]]

Upper == <<"B", "C", "G", "I", "O", "V">>
Lower == <<"b", "c", "g", "i", "o", "v">>

\* c.lower()
lower(c) == IF \E i \in 1..Len(Upper) : Upper[i] = c
            THEN Lower[CHOOSE i \in 1..Len(Upper) : Upper[i] = c] ELSE c

\* one character of a regular expression against one character, ignoring
\* case: "." matches any character
regex_match(p, c) == p = "." \/ lower(p) = lower(c)

\* Series.str.contains(pat, case=False) on one string, for a pattern of
\* letters and points: pat is searched as a regular expression
contains(text, pat) ==
    \E o \in 0..(Len(text) - Len(pat)) :
        \A i \in 1..Len(pat) : regex_match(pat[i], text[o + i])

\* request.args.get(name) is truthy: supplied and not empty
truthy(args, name) == name \in DOMAIN args /\ args[name] # <<>>

\* TRUE iff int(s) returns for a parameter of digits and letters
int_ok(s) == IsNumeric(s)

\* request.args.get('limit', type=int): the integer, or None, held as
\* <<>>, when the parameter is absent or no integer; else <<the integer>>
limit_of(args) ==
    IF "limit" \in DOMAIN args /\ int_ok(args["limit"])
    THEN <<int(args["limit"])>> ELSE <<>>

\* df.head(n) for n >= 0
head(df, n) == SubSeq(df, 1, IF n < Len(df) THEN n ELSE Len(df))

\* Series.unique(): the values in the order of their first occurrence
RECURSIVE unique(_)
unique(xs) ==
    IF Len(xs) = 0 THEN <<>>
    ELSE LET rest == unique(SubSeq(xs, 1, Len(xs) - 1))
             x    == xs[Len(xs)]
         IN  IF \E i \in 1..Len(rest) : rest[i] = x THEN rest ELSE Append(rest, x)

\* sorted(xs) of distinct integers
RECURSIVE sorted(_)
sorted(xs) ==
    IF Len(xs) = 0 THEN <<>>
    ELSE LET x    == min(xs)
             rest == SelectSeq(xs, LAMBDA y : y # x)
         IN  <<x>> \o sorted(rest)

\* the filters of both handlers and the 200 answer; seasonal tells whether
\* the season parameter is read
filtered(a, df, args, seasonal) ==
    LET limit   == limit_of(args)
        by_city == IF truthy(args, "city")
                   THEN SelectSeq(df, LAMBDA r : contains(r.city, args["city"]))
                   ELSE df
        \* the outer version tests "if year:" after year = int(year)
        by_year == IF truthy(args, "year")
                      /\ (a = "inner" \/ int(args["year"]) # 0)
                   THEN SelectSeq(by_city, LAMBDA r : r.year = int(args["year"]))
                   ELSE by_city
        by_season == IF seasonal /\ truthy(args, "season")
                     THEN SelectSeq(by_year, LAMBDA r : contains(r.season, args["season"]))
                     ELSE by_year
        result  == IF limit # <<>> /\ limit[1] # 0 THEN head(by_season, limit[1])
                   ELSE by_season
        cities  == unique([i \in 1..Len(result) |-> result[i].city])
        years   == sorted(unique([i \in 1..Len(result) |-> result[i].year]))
    IN  [status |-> 200,
         body   |-> [data |-> result,
                     metadata |-> [total_records |-> Len(result),
                                   cities |-> cities,
                                   years  |-> years]]]

not_available(a, name) ==
    [status |-> 404,
     body   |-> [error |-> IF a = "outer" THEN "No data available"
                           ELSE "No hay datos disponibles",
                 table |-> name]]

bad_request(msg) == [status |-> 400, body |-> [error |-> msg]]

\* get_temperature_data and get_precipitation_data, which differ by the
\* table they read and by the season parameter
get_data(a, fs, args, name, seasonal) ==
    LET data == load_data(a, fs)
    IN  IF name \notin DOMAIN data THEN internal_error(a)
        ELSE IF empty(data[name]) THEN not_available(a, name)
        ELSE IF a = "outer"
             THEN IF truthy(args, "year") /\ ~int_ok(args["year"])
                  THEN bad_request("Invalid year parameter")
                  ELSE IF limit_of(args) # <<>> /\ limit_of(args)[1] <= 0
                  THEN bad_request("Limit parameter must be a positive integer")
                  ELSE filtered(a, data[name], args, seasonal)
             ELSE IF truthy(args, "year") /\ ~int_ok(args["year"])
                  THEN internal_error(a)
                  ELSE filtered(a, data[name], args, seasonal)

get_temperature_data(a, fs, args) == get_data(a, fs, args, "temperature", FALSE)

get_precipitation_data(a, fs, args) == get_data(a, fs, args, "precipitation", TRUE)

\* the strings a request supplies for each parameter
ParameterValues ==
    [city   |-> {<<"B", "O", "G">>, <<".">>},
     year   |-> {<<"2", "0", "2", "3">>, <<"0">>,
                 <<"i", "n", "v", "a", "l", "i", "d">>},
     season |-> {<<"v", "e", "r">>},
     limit  |-> {<<"1">>, <<"0">>}]

\* the query strings over the parameters names
Args(names) ==
    UNION {{args \in [D -> UNION {ParameterValues[n] : n \in names}] :
               \A n \in D : args[n] \in ParameterValues[n]} : D \in SUBSET names}

NoRequest == [path |-> "", args |-> <<>>]
NoResponse == [status |-> 0, body |-> [error |-> ""]]

\* the service is not running
ApiIdle ==
    /\ app = "outer"
    /\ files = [k \in {FileNames[i] : i \in 1..Len(FileNames)} |->
                   [state |-> "absent", rows |-> <<>>]]
    /\ request = NoRequest
    /\ response = NoResponse

-----------------------------------------------------------------------------
(* The MRJob runner: two steps, each a mapper, a shuffle and a reducer.
   A mapper consumes its input in order and a reducer is handed the keys
   in order of first arrival, each with its values in arrival order.  The
   input batch ranges over all sequences of lines, so every arrival order
   of the keys and of the values of a key occurs in some run. *)

\* the distinct keys of a shuffle, in order of first arrival
RECURSIVE keys_of(_)
keys_of(pairs) ==
    IF Len(pairs) = 0 THEN <<>>
    ELSE LET rest == keys_of(SubSeq(pairs, 1, Len(pairs) - 1))
             k    == pairs[Len(pairs)].key
         IN  IF \E i \in 1..Len(rest) : rest[i] = k THEN rest ELSE Append(rest, k)

\* the values collected for a key, in arrival order
values_of(pairs, k) ==
    LET sel == SelectSeq(pairs, LAMBDA p : p.key = k)
    IN  [i \in 1..Len(sel) |-> sel[i].value]

step1_mapper(j, line) ==
    IF j = "temperature" THEN mapper_parse_data(line)
    ELSE mapper_parse_precipitation(line)

step1_reducer(j, key, values) ==
    IF j = "temperature" THEN reducer_aggregate_temps(key, values)
    ELSE reducer_monthly_totals(key, values)

step2_mapper(j, key, value) ==
    IF j = "temperature" THEN mapper_format_output(key, value)
    ELSE mapper_add_season(key, value)

step2_reducer(j, key, values) ==
    IF j = "temperature" THEN reducer_final_output(key, values)
    ELSE reducer_seasonal_analysis(key, values)

\* A whole run as a function of the input batch: steps() applied in order,
\* keys reduced in order of first arrival.
RECURSIVE map_all1(_, _)
map_all1(j, lines) ==
    IF Len(lines) = 0 THEN <<>>
    ELSE step1_mapper(j, Head(lines)) \o map_all1(j, Tail(lines))

reduce_all1(j, pairs) ==
    LET ks == keys_of(pairs)
        F[n \in 0..Len(ks)] ==
            IF n = 0 THEN <<>>
            ELSE F[n - 1] \o step1_reducer(j, ks[n], values_of(pairs, ks[n]))
    IN  F[Len(ks)]

RECURSIVE map_all2(_, _)
map_all2(j, recs) ==
    IF Len(recs) = 0 THEN <<>>
    ELSE step2_mapper(j, Head(recs).key, Head(recs).value) \o map_all2(j, Tail(recs))

reduce_all2(j, pairs) ==
    LET ks == keys_of(pairs)
        F[n \in 0..Len(ks)] ==
            IF n = 0 THEN <<>>
            ELSE F[n - 1] \o step2_reducer(j, ks[n], values_of(pairs, ks[n]))
    IN  F[Len(ks)]

run(j, lines) == reduce_all2(j, map_all2(j, reduce_all1(j, map_all1(j, lines))))

\* a run about to start, the query service not running
InitWith(jobs, lines, n, sums) ==
    /\ ApiIdle
    /\ job \in jobs
    /\ summation \in sums
    /\ input \in SeqsUpTo(lines, n)
    /\ pos = 0
    /\ shuffle1 = <<>>
    /\ reduced1 = 0
    /\ out1 = <<>>
    /\ pos2 = 0
    /\ shuffle2 = <<>>
    /\ reduced2 = 0
    /\ output = <<>>
    /\ raised = FALSE

\* the sample lines hold whole numbers, whose sums are exact whichever way
\* sum() adds them
Init == InitWith({"temperature", "precipitation"}, SampleLines, MaxLines, {"naive"})

\* Barriers: a step's reducer starts once its mapper has consumed all of its
\* input, and step 2 starts once step 1's reducer has handled every key.
\* a reducer started without waiting for the mapper
no_barrier == TRUE

Map1Done == pos = Len(input)
Reduce1Done == Map1Done /\ reduced1 = Len(keys_of(shuffle1))
Map2Done == Reduce1Done /\ pos2 = Len(out1)
Reduce2Done == Map2Done /\ reduced2 = Len(keys_of(shuffle2))

\* The runner's scheduling: while no exception has ended the run, it hands
\* the next input line to the step-1 mapper, then the next key to the step-1
\* reducer, then the next record to the step-2 mapper, then the next key to
\* the step-2 reducer.
Feed1 == ~raised /\ pos < Len(input) /\ pos' = pos + 1
Group1 ==
    ~raised /\ Map1Done /\ reduced1 < Len(keys_of(shuffle1)) /\ reduced1' = reduced1 + 1
Feed2 == ~raised /\ Reduce1Done /\ pos2 < Len(out1) /\ pos2' = pos2 + 1
Group2 ==
    ~raised /\ Map2Done /\ reduced2 < Len(keys_of(shuffle2)) /\ reduced2' = reduced2 + 1

\* the step-1 mapper takes the next input line
Map1(j) ==
    /\ job = j
    /\ Feed1
    /\ shuffle1' = shuffle1 \o step1_mapper(j, input[pos + 1])
    /\ UNCHANGED <<summation, api_vars>>
    /\ UNCHANGED <<job, input, reduced1, out1, pos2, shuffle2, reduced2,
                   output, raised>>

\* the step-1 reducer takes the next key and all the values collected for it
Reduce1(j) ==
    /\ job = j
    /\ Group1
    /\ LET k == keys_of(shuffle1)[reduced1 + 1]
       IN  /\ out1' = out1 \o step1_reducer(j, k, values_of(shuffle1, k))
           /\ raised' = (j = "precipitation"
                          /\ reducer_monthly_totals_raises(k, values_of(shuffle1, k)))
    /\ UNCHANGED <<summation, api_vars>>
    /\ UNCHANGED <<job, input, pos, shuffle1, pos2, shuffle2, reduced2, output>>

\* the step-2 mapper takes the next record of step 1's output
Map2(j) ==
    /\ job = j
    /\ Feed2
    /\ shuffle2' = shuffle2 \o step2_mapper(j, out1[pos2 + 1].key, out1[pos2 + 1].value)
    /\ UNCHANGED <<summation, api_vars>>
    /\ UNCHANGED <<job, input, pos, shuffle1, reduced1, out1, reduced2, output,
                   raised>>

\* the step-2 reducer takes the next key and writes its lines
Reduce2(j) ==
    /\ job = j
    /\ Group2
    /\ LET k == keys_of(shuffle2)[reduced2 + 1]
       IN  output' = output \o step2_reducer(j, k, values_of(shuffle2, k))
    /\ UNCHANGED <<summation, api_vars>>
    /\ UNCHANGED <<job, input, pos, shuffle1, reduced1, out1, pos2, shuffle2,
                   raised>>

TemperatureMap1 == Map1("temperature")
TemperatureReduce1 == Reduce1("temperature")
TemperatureMap2 == Map2("temperature")
TemperatureReduce2 == Reduce2("temperature")
PrecipitationMap1 == Map1("precipitation")
PrecipitationReduce1 == Reduce1("precipitation")
PrecipitationMap2 == Map2("precipitation")
PrecipitationReduce2 == Reduce2("precipitation")

Next ==
    \/ TemperatureMap1
    \/ TemperatureReduce1
    \/ TemperatureMap2
    \/ TemperatureReduce2
    \/ PrecipitationMap1
    \/ PrecipitationReduce1
    \/ PrecipitationMap2
    \/ PrecipitationReduce2

Spec == Init /\ [][Next]_vars

\* Either job on batches that cover every calendar month and the header.
SeasonInit ==
    InitWith({"temperature", "precipitation"}, MonthLines, MaxMonthly, {"naive"})

SpecSeason == SeasonInit /\ [][Next]_vars

\* The precipitation job on batches of decimal precipitations, under either
\* way of summing floats.
DecimalInit ==
    InitWith({"precipitation"}, DecimalLines, MaxDecimal, {"naive", "compensated"})

DecimalNext ==
    \/ PrecipitationMap1
    \/ PrecipitationReduce1
    \/ PrecipitationMap2
    \/ PrecipitationReduce2

SpecDecimal == DecimalInit /\ [][DecimalNext]_vars

\* The precipitation job on days with and without a precipitation amount.
EmptyInit == InitWith({"precipitation"}, EmptyLines, MaxEmpty, {"naive"})

PrecipitationNext ==
    \/ PrecipitationMap1
    \/ PrecipitationReduce1
    \/ PrecipitationMap2
    \/ PrecipitationReduce2

SpecEmpty == EmptyInit /\ [][PrecipitationNext]_vars

\* Either job on batches of complete and incomplete records.
ColumnsInit ==
    InitWith({"temperature", "precipitation"}, ColumnLines, MaxColumns, {"naive"})

SpecColumns == ColumnsInit /\ [][Next]_vars

\* Either job on batches of cities whose names hold underscores and digits.
KeysInit ==
    InitWith({"temperature", "precipitation"}, KeyLines, MaxKeys, {"naive"})

SpecKeys == KeysInit /\ [][Next]_vars

\* The precipitation job on batches of days around the turn of a year.
YearsInit == InitWith({"precipitation"}, YearLines, MaxYears, {"naive"})

SpecYears == YearsInit /\ [][PrecipitationNext]_vars

\* Either job on batches that mix lines of every kind.  A run is one
\* process that works through its input and stops only at the end or on an
\* exception: each hand-over of the runner that stays possible is taken.
MixedInit ==
    InitWith({"temperature", "precipitation"}, MixedLines, MaxMixed, {"naive"})

SpecMixed ==
    /\ MixedInit /\ [][Next]_vars
    /\ WF_pos(Feed1) /\ WF_reduced1(Group1) /\ WF_pos2(Feed2) /\ WF_reduced2(Group2)

\* The query service, on every state of the three data files; no job runs.
ApiInit ==
    /\ app \in {"outer", "inner"}
    /\ files \in [{FileNames[i] : i \in 1..Len(FileNames)} ->
                     UNION {FileStates(Tables[FileNames[i]]) : i \in 1..Len(FileNames)}]
    /\ \A i \in 1..Len(FileNames) :
          files[FileNames[i]] \in FileStates(Tables[FileNames[i]])
    /\ request = NoRequest
    /\ response = NoResponse
    /\ job = "temperature"
    /\ summation = "naive"
    /\ input = <<>>
    /\ pos = 0
    /\ shuffle1 = <<>>
    /\ reduced1 = 0
    /\ out1 = <<>>
    /\ pos2 = 0
    /\ shuffle2 = <<>>
    /\ reduced2 = 0
    /\ output = <<>>
    /\ raised = FALSE

\* GET /health
Health ==
    /\ request' = [path |-> "/health", args |-> <<>>]
    /\ response' = health(app, files)
    /\ UNCHANGED <<app, files, pipeline_vars>>

\* GET /data/temperature?city=..&year=..&limit=..
GetTemperatureData ==
    \E args \in Args({"city", "year", "limit"}) :
        /\ request' = [path |-> "/data/temperature", args |-> args]
        /\ response' = get_temperature_data(app, files, args)
        /\ UNCHANGED <<app, files, pipeline_vars>>

\* GET /data/precipitation?city=..&year=..&season=..&limit=..
GetPrecipitationData ==
    \E args \in Args({"city", "year", "season", "limit"}) :
        /\ request' = [path |-> "/data/precipitation", args |-> args]
        /\ response' = get_precipitation_data(app, files, args)
        /\ UNCHANGED <<app, files, pipeline_vars>>

ApiNext ==
    \/ Health
    \/ GetTemperatureData
    \/ GetPrecipitationData

SpecApi == ApiInit /\ [][ApiNext]_vars

\* step 1 has just emitted its last record; step 2 has not started
Stage1Complete ==
    /\ ~raised
    /\ pos = Len(input)
    /\ pos2 = 0
    /\ reduced1 = Len(keys_of(shuffle1))

\* the run is over: both steps have handled all their input
Done ==
    /\ ~raised
    /\ pos = Len(input)
    /\ pos2 = Len(out1)
    /\ reduced2 = Len(keys_of(shuffle2))
    /\ reduced1 = Len(keys_of(shuffle1))

-----------------------------------------------------------------------------
(* What the claims speak of, stated on the input batch *)

Range(seq) == {seq[i] : i \in 1..Len(seq)}

Abs(x) == IF x < 0 THEN -x ELSE x

\* a (in hundredths) is num / den rounded to 2 decimals
IsRounded(a, num, den) == 2 * Abs(a * den - 100 * num) <= den

\* a (in hundredths) is numH / den rounded to 2 decimals, numH in hundredths
IsRoundedH(a, numH, den) == 2 * Abs(a * den - numH) <= den

\* a valid temperature record: at least 8 fields, numeric max, min and
\* mean, a parseable date
ValidTemperature(line) ==
    /\ Len(line) >= 8
    /\ \A c \in 2..4 : IsFloat(line[c])
    /\ strptime_ok(line[1])

\* a valid precipitation record: at least 8 fields, an empty or numeric
\* precipitation, a parseable date
ValidPrecipitation(line) ==
    /\ Len(line) >= 8
    /\ (line[5] = <<>> \/ IsFloat(line[5]))
    /\ strptime_ok(line[1])

ValidLine(line) ==
    IF job = "temperature" THEN ValidTemperature(line) ELSE ValidPrecipitation(line)

\* the (city, year, month) of a valid record
Triple(line) == <<line[8], date_year(line[1]), date_month(line[1])>>

\* The valid records of the running job among the input lines, each with
\* its line number, its (city, year, month), its daily maximum and its
\* daily precipitation (0 when the field is empty).
ValidRecords ==
    {[i      |-> i,
      triple |-> Triple(input[i]),
      tmax   |-> IF IsNumeric(input[i][2]) THEN float(input[i][2]) ELSE 0,
      rain   |-> IF IsNumeric(input[i][5]) THEN float(input[i][5]) ELSE 0] :
        i \in {n \in 1..Len(input) : ValidLine(input[n])}}

Triples(R) == {r.triple : r \in R}

\* the valid records of one (city, year, month)
Contributors(R, t) == {r \in R : r.triple = t}

SumOver(S, f(_)) ==
    LET g[T \in SUBSET S] ==
            IF T = {} THEN 0
            ELSE LET x == CHOOSE y \in T : TRUE IN f(x) + g[T \ {x}]
    IN  g[S]

MaxOver(S, f(_)) == CHOOSE v \in {f(x) : x \in S} : \A x \in S : f(x) <= v

TempMax(r) == r.tmax
Rain(r) == r.rain

\* the stage-1 output records of one (city, year, month)
MonthlyRecords(t) == {j \in 1..Len(out1) : out1[j].key = month_key(t[1], t[2], t[3])}

SeasonLabels == {Verano, Transicion, Invierno, Lluvias_Tardias}

SeasonMonths(label) ==
    IF label = Verano THEN {12, 1, 2}
    ELSE IF label = Transicion THEN {3, 4, 5}
    ELSE IF label = Invierno THEN {6, 7, 8}
    ELSE {9, 10, 11}

\* the months with a valid record that belong to an output row of the
\* precipitation job
SeasonGroup(R, row) ==
    {t \in Triples(R) :
        t[1] = row.city /\ t[2] = row.year /\ t[3] \in SeasonMonths(row.season)}

\* monthly_total of a month, from the input
MonthlyTotal(R, t) == 100 * SumOver(Contributors(R, t), Rain)

RainyDays(R, t) == Cardinality({r \in Contributors(R, t) : r.rain > 0})

\* the (city, year, month) of a row of the temperature job
RowTriple(r) == <<r.city, r.year, int(r.month)>>

-----------------------------------------------------------------------------
(* C1: in the temperature job, the monthly statistic of every (city, year,
   month) with N valid records has total_days = N and avg_temp_max = the
   sum of the N daily maxima divided by N, rounded to 2 decimals; repeated
   lines each count.  Stated of the output of stage 1 when it completes,
   where every such month has exactly one statistic. *)
C1_MonthlyTemperature ==
    (job = "temperature" /\ Stage1Complete) =>
        LET R == ValidRecords
        IN  \A t \in Triples(R) :
                LET C == Contributors(R, t)
                    N == Cardinality(C)
                IN  /\ Cardinality(MonthlyRecords(t)) = 1
                    /\ \A j \in MonthlyRecords(t) :
                          /\ out1[j].value.d.total_days = N
                          /\ IsRounded(out1[j].value.d.avg_temp_max,
                                       SumOver(C, TempMax), N)

\* three records of one month (two of them the same line), average 30.67
C1_Witness ==
    /\ job = "temperature"
    /\ \E j \in 1..Len(out1) :
          /\ out1[j].value.d.total_days = 3
          /\ out1[j].value.d.avg_temp_max = 3067

(* C2 as stated: in the precipitation job the monthly statistic of a key
   with daily values V has monthly_total = sum(V), days_with_rain = the
   number of values > 0, max_daily_precipitation = max(V),
   avg_daily_precipitation = sum(V) / |V| exactly, total_days = |V|. *)
C2_ExactAverage ==
    (job = "precipitation" /\ Stage1Complete) =>
        LET R == ValidRecords
        IN  \A t \in Triples(R) : \A j \in MonthlyRecords(t) :
                LET C == Contributors(R, t)
                    N == Cardinality(C)
                    d == out1[j].value.d
                IN  /\ d.monthly_total = 100 * SumOver(C, Rain)
                    /\ d.days_with_rain = RainyDays(R, t)
                    /\ d.max_daily_precipitation = 100 * MaxOver(C, Rain)
                    /\ d.avg_daily_precipitation * N = 100 * SumOver(C, Rain)
                    /\ d.total_days = N

(* C2 amended: as above, with avg_daily_precipitation = sum(V) / |V|
   rounded to 2 decimals.  Stated of the output of stage 1 when it
   completes, where every month with a valid record has one statistic. *)
C2_MonthlyPrecipitation ==
    (job = "precipitation" /\ Stage1Complete) =>
        LET R == ValidRecords
        IN  \A t \in Triples(R) :
                LET C == Contributors(R, t)
                    N == Cardinality(C)
                IN  /\ Cardinality(MonthlyRecords(t)) = 1
                    /\ \A j \in MonthlyRecords(t) :
                          LET d == out1[j].value.d
                          IN  /\ d.monthly_total = 100 * SumOver(C, Rain)
                              /\ d.days_with_rain = RainyDays(R, t)
                              /\ d.max_daily_precipitation = 100 * MaxOver(C, Rain)
                              /\ IsRounded(d.avg_daily_precipitation,
                                           SumOver(C, Rain), N)
                              /\ d.total_days = N

\* daily values 0, 5, 5: total 10, two days with rain, average 3.33
C2_Witness ==
    /\ job = "precipitation"
    /\ \E j \in 1..Len(out1) :
          /\ out1[j].value.d.total_days = 3
          /\ out1[j].value.d.days_with_rain = 2
          /\ out1[j].value.d.monthly_total = 1000
          /\ out1[j].value.d.avg_daily_precipitation = 333

(* C3: every row of the precipitation job whose season has S months with
   valid records (S = 1, 2 or 3) has avg_monthly_precipitation = the sum
   of their monthly totals divided by S, rounded to 2 decimals.  Stated of
   the rows written when the run is over. *)
C3_SeasonalAverage ==
    (job = "precipitation" /\ Done) =>
        LET R == ValidRecords
            Total(t) == MonthlyTotal(R, t)
        IN  \A r \in Range(output) :
                LET G == SeasonGroup(R, r)
                    S == Cardinality(G)
                IN  /\ S \in 1..3
                    /\ IsRoundedH(r.avg_monthly_precipitation, SumOver(G, Total), S)

\* January (5.0) and February (10.0) only: 7.5, not 15 / 3
C3_Witness ==
    /\ job = "precipitation"
    /\ \E r \in Range(output) :
          /\ r.months_in_season = 2
          /\ r.total_seasonal_precipitation = 1500
          /\ r.avg_monthly_precipitation = 750

(* C4: every row of the precipitation job has total_seasonal_precipitation
   = the sum of the monthly totals of its group, total_rainy_days = the
   number of valid daily records with precipitation > 0 in its months,
   max_monthly_precipitation = the largest monthly total, months_in_season
   = the number of months of the group.  Stated of the rows written when
   the run is over. *)
C4_SeasonalTotals ==
    (job = "precipitation" /\ Done) =>
        LET R == ValidRecords
            Total(t) == MonthlyTotal(R, t)
            Rainy(t) == RainyDays(R, t)
        IN  \A r \in Range(output) :
                LET G == SeasonGroup(R, r)
                IN  /\ G # {}
                    /\ r.total_seasonal_precipitation = SumOver(G, Total)
                    /\ r.total_rainy_days = SumOver(G, Rainy)
                    /\ r.max_monthly_precipitation = MaxOver(G, Total)
                    /\ r.months_in_season = Cardinality(G)

\* January (5), February (10) and a December without rain
C4_Witness ==
    /\ job = "precipitation"
    /\ \E r \in Range(output) :
          /\ r.months_in_season = 3
          /\ r.total_seasonal_precipitation = 1500
          /\ r.max_monthly_precipitation = 1000
          /\ r.total_rainy_days = 2

(* C5: get_season is defined on every month 1..12 and returns one of the
   four labels: Verano for 12, 1, 2; Transición for 3, 4, 5; Invierno for
   6, 7, 8; Lluvias_Tardías for 9, 10, 11; the four preimages are pairwise
   disjoint and cover 1..12; every record the season reclassifier emits
   carries the label of its month. *)
C5_SeasonPartition ==
    LET Preimage(l) == {m \in 1..12 : get_season(m) = l}
    IN  /\ \A m \in 1..12 : get_season(m) \in SeasonLabels
        /\ \A l \in SeasonLabels : Preimage(l) = SeasonMonths(l)
        /\ \A k, l \in SeasonLabels : k # l => Preimage(k) \cap Preimage(l) = {}
        /\ UNION {Preimage(l) : l \in SeasonLabels} = 1..12
        /\ \A p \in Range(shuffle2) :
              (job = "precipitation" /\ p.key # ERROR) =>
                  /\ p.value.d.season \in SeasonLabels
                  /\ p.value.d.month \in SeasonMonths(p.value.d.season)

\* a December and a November have been reclassified
C5_Witness ==
    /\ job = "precipitation"
    /\ \E p \in Range(shuffle2) :
          p.key # ERROR /\ p.value.d.month = 12 /\ p.value.d.season = Verano
    /\ \E p \in Range(shuffle2) :
          p.key # ERROR /\ p.value.d.month = 11 /\ p.value.d.season = Lluvias_Tardias

(* C6: in both jobs no exception (so no division by zero) escapes a
   reducer, every monthly statistic counts at least one day and belongs to
   a (city, year, month) with a valid daily record, and every row written
   rests on at least one valid daily record of its month or season. *)
C6_NoEmptyGroup ==
    /\ ~raised
    /\ Stage1Complete =>
          LET T == Triples(ValidRecords)
          IN  \A j \in 1..Len(out1) :
                  /\ out1[j].value.d.total_days >= 1
                  /\ \E t \in T : j \in MonthlyRecords(t)
    /\ Done =>
          LET R == ValidRecords
              T == Triples(R)
          IN  \A r \in Range(output) :
                  IF job = "temperature"
                  THEN r.total_days >= 1 /\ RowTriple(r) \in T
                  ELSE r.months_in_season >= 1 /\ SeasonGroup(R, r) # {}

\* a run that wrote a row although one of its lines was an error record
C6_Witness ==
    /\ Done
    /\ output # <<>>
    /\ \E p \in Range(shuffle1) : p.key = ERROR

(* C7: in the temperature job the rows of one (city, year) are written in
   strictly increasing month order, whatever the order in which the
   monthly statistics reached the final reducer. *)
C7_MonthsIncrease ==
    job = "temperature" =>
        \A i, j \in 1..Len(output) :
            (i < j /\ output[i].city = output[j].city
                   /\ output[i].year = output[j].year)
                => int(output[i].month) < int(output[j].month)

\* February reached the final reducer before January of the same year
C7_Witness ==
    /\ job = "temperature"
    /\ Len(output) >= 2
    /\ \E a, b \in 1..Len(shuffle2) :
          /\ a < b
          /\ shuffle2[a].key = shuffle2[b].key
          /\ shuffle2[a].key # ERROR
          /\ shuffle2[a].value.d.month > shuffle2[b].value.d.month

\* a line with fewer than 8 fields
Short(line) == Len(line) < 8

NotShort(line) == ~Short(line)

(* C8: in both jobs the set of rows written by a run is the set of rows
   written by a run on the same batch without its lines of fewer than 8
   fields. *)
C8_ShortLinesDropped ==
    (Done /\ \E i \in 1..Len(input) : Short(input[i])) =>
        Range(output) = Range(run(job, SelectSeq(input, NotShort)))

\* a run on a batch with a short line and valid lines that wrote rows
C8_Witness ==
    /\ Done
    /\ output # <<>>
    /\ \E i \in 1..Len(input) : Short(input[i])

\* a record on which the stage-1 mapper raises: a field that is no number,
\* or a date strptime rejects while the fields before it are accepted
RaisesParse(line) ==
    /\ Len(line) >= 8
    /\ ~is_header(line)
    /\ IF job = "temperature"
       THEN \/ \E c \in 2..4 : line[c] # <<>> /\ ~IsFloat(line[c])
            \/ (\A c \in 2..4 : IsFloat(line[c])) /\ ~strptime_ok(line[1])
       ELSE \/ line[5] # <<>> /\ ~IsFloat(line[5])
            \/ ~strptime_ok(line[1])

\* a valid record whose monthly statistic the stage-2 mapper cannot regroup:
\* its key does not split into city, year and month
RaisesRegroup(line) == ValidLine(line) /\ Len(split(line[8], "_")) # 1

(* C9: in both jobs a record that raises a parse or regroup error is
   emitted under the key "ERROR" only, no exception escapes, no record of
   stage 1's output and no row derives from an error record, and the rows
   written are those of a run on the batch without the offending
   records. *)
C9_ErrorsDiscarded ==
    /\ ~raised
    /\ Stage1Complete =>
          /\ \A i \in 1..Len(input) :
                RaisesParse(input[i]) =>
                    /\ Len(step1_mapper(job, input[i])) = 1
                    /\ step1_mapper(job, input[i])[1].key = ERROR
          /\ \A p \in Range(shuffle1) : p.value.t = "text" => p.key = ERROR
          /\ \A p \in Range(out1) : p.key # ERROR /\ p.value.t = "json"
    /\ Done =>
          LET Bad == {i \in 1..Len(input) :
                         RaisesParse(input[i]) \/ RaisesRegroup(input[i])}
              Regroup == {i \in Bad : RaisesRegroup(input[i])}
              Kept == {i \in 1..Len(input) : i \notin Bad}
              Without == [n \in 1..Cardinality(Kept) |->
                            input[CHOOSE i \in Kept :
                                    Cardinality({k \in Kept : k < i}) = n - 1]]
          IN  /\ \A p \in Range(shuffle2) : p.value.t = "text" <=> p.key = ERROR
              /\ Cardinality({p \in 1..Len(shuffle2) : shuffle2[p].key = ERROR})
                    = Cardinality({Triple(input[i]) : i \in Regroup})
              /\ Bad # {} => Range(output) = Range(run(job, Without))

\* a run that met a parse error and a regroup error and still wrote a row
C9_Witness ==
    /\ Done
    /\ output # <<>>
    /\ \E p \in Range(shuffle1) : p.key = ERROR
    /\ \E p \in Range(shuffle2) : p.key = ERROR

(* C10 as stated: the temperature job writes exactly one row for each
   (city, year, month) with a valid daily record and no other row,
   whatever the city name. *)
C10_OneRowPerMonth ==
    (job = "temperature" /\ Done) =>
        LET T == Triples(ValidRecords)
        IN  /\ \A t \in T :
                  Cardinality({i \in 1..Len(output) : RowTriple(output[i]) = t}) = 1
            /\ \A r \in Range(output) : RowTriple(r) \in T

\* the season a calendar month belongs to
SeasonOf(m) == CHOOSE l \in SeasonLabels : m \in SeasonMonths(l)

\* the (city, season, year) of a row of the precipitation job
RowSeason(r) == <<r.city, r.season, r.year>>

(* C11 as stated: the precipitation job writes exactly one line for every
   (city, season, year) that has a valid daily precipitation record, and no
   two lines share a (city, season, year). *)
C11_OneRowPerSeason ==
    (job = "precipitation" /\ Done) =>
        LET T == Triples(ValidRecords)
            S == {<<t[1], SeasonOf(t[3]), t[2]>> : t \in T}
        IN  /\ \A s \in S :
                  Cardinality({i \in 1..Len(output) : RowSeason(output[i]) = s}) = 1
            /\ \A i, j \in 1..Len(output) :
                  i # j => RowSeason(output[i]) # RowSeason(output[j])

(* C13: in both jobs stage 1 hands no record under the "ERROR" key to stage
   2, the stage-2 mapper is applied to the records of stage 1's reducer and
   to nothing else, and a line that fails stage-1 parsing (too few fields,
   a field that is no number, a date that does not parse) contributes to
   nothing downstream: stage 1's output and the rows written are those of a
   run on the valid lines alone. *)
C13_FailedRecordsStopAtStage1 ==
    /\ \A p \in Range(out1) : p.key # ERROR
    /\ shuffle2 = map_all2(job, SubSeq(out1, 1, pos2))
    /\ Stage1Complete =>
          out1 = reduce_all1(job, map_all1(job, SelectSeq(input, ValidLine)))
    /\ Done => output = run(job, SelectSeq(input, ValidLine))

\* a run that wrote rows from a batch with a short line and a line whose
\* date does not parse
C13_Witness ==
    /\ Done
    /\ output # <<>>
    /\ \E i \in 1..Len(input) : Short(input[i])
    /\ \E i \in 1..Len(input) : ~Short(input[i]) /\ ~strptime_ok(input[i][1])

(* C14: in both jobs every step of a run is one of four kinds, taken in
   this order and never again once a later kind has begun: the stage-1
   mapper takes the next input line; the stage-1 reducer takes the next key
   once every line is mapped, with all the values the mapper emitted for
   that key over the whole batch; the stage-2 mapper takes the next record
   once stage 1 has reduced every key; the stage-2 reducer takes the next
   key once every record is mapped, with all its values.  No counter ever
   decreases and each line, record and key is handled once. *)
C14_Barriers ==
    [][ /\ pos' \in {pos, pos + 1}
        /\ reduced1' \in {reduced1, reduced1 + 1}
        /\ pos2' \in {pos2, pos2 + 1}
        /\ reduced2' \in {reduced2, reduced2 + 1}
        /\ (pos' # pos \/ shuffle1' # shuffle1) =>
              /\ reduced1 = 0 /\ pos2 = 0 /\ reduced2 = 0
              /\ out1 = <<>> /\ shuffle2 = <<>> /\ output = <<>>
              /\ shuffle1' = map_all1(job, SubSeq(input, 1, pos'))
        /\ (reduced1' # reduced1 \/ out1' # out1) =>
              /\ pos = Len(input) /\ pos' = pos
              /\ shuffle1 = map_all1(job, input) /\ shuffle1' = shuffle1
              /\ pos2 = 0 /\ reduced2 = 0 /\ shuffle2 = <<>> /\ output = <<>>
              /\ LET k == keys_of(shuffle1)[reduced1']
                 IN  out1' = out1 \o step1_reducer(job, k, values_of(shuffle1, k))
        /\ (pos2' # pos2 \/ shuffle2' # shuffle2) =>
              /\ pos = Len(input) /\ reduced1 = Len(keys_of(shuffle1))
              /\ out1 = reduce_all1(job, shuffle1) /\ out1' = out1
              /\ reduced2 = 0 /\ output = <<>>
              /\ shuffle2' = map_all2(job, SubSeq(out1, 1, pos2'))
        /\ (reduced2' # reduced2 \/ output' # output) =>
              /\ pos = Len(input) /\ reduced1 = Len(keys_of(shuffle1))
              /\ pos2 = Len(out1) /\ pos2' = pos2
              /\ shuffle2 = map_all2(job, out1) /\ shuffle2' = shuffle2
              /\ LET k == keys_of(shuffle2)[reduced2']
                 IN  output' = output \o step2_reducer(job, k, values_of(shuffle2, k))
      ]_vars

\* a finished run in which each stage reduced several keys
C14_Witness ==
    /\ Done
    /\ Len(keys_of(shuffle1)) >= 3
    /\ Len(keys_of(shuffle2)) >= 2
    /\ Len(output) >= 3

\* a line that starts with the prefix 'time,temperature'
HeaderPrefix(line) ==
    /\ Len(line) >= 2
    /\ line[1] = <<"time">>
    /\ Len(line[2]) >= 1
    /\ line[2][1] = "temperature"

NoHeaderPrefix(line) == ~HeaderPrefix(line)

(* C18: in both jobs the stage-1 mapper emits nothing for a line that
   starts with 'time,temperature', whatever its number of fields: neither a
   record under a data key nor one under "ERROR".  What the mapper has
   collected is what it collects from the other lines alone, and the rows
   written are those of a run on the batch without such lines. *)
C18_HeaderSkipped ==
    /\ \A i \in 1..Len(input) :
          HeaderPrefix(input[i]) => step1_mapper(job, input[i]) = <<>>
    /\ shuffle1 = map_all1(job, SelectSeq(SubSeq(input, 1, pos), NoHeaderPrefix))
    /\ Done => output = run(job, SelectSeq(input, NoHeaderPrefix))

\* a finished run that met the header line, or a header line cut short,
\* and wrote a row
C18_Witness ==
    /\ Done
    /\ output # <<>>
    /\ \E i \in 1..Len(input) : HeaderPrefix(input[i])

(* C19 as stated: in both jobs a line with fewer than 8 fields that the
   stage-1 mapper has consumed left exactly one record under the key
   "ERROR", as a line with a parse error does, so the error channel holds
   one record for each of them. *)
C19_ShortLinesRouted ==
    /\ \A i \in 1..pos :
          Short(input[i]) =>
              LET emitted == step1_mapper(job, input[i])
              IN  Len(emitted) = 1 /\ emitted[1].key = ERROR
    /\ Cardinality({n \in 1..Len(shuffle1) : shuffle1[n].key = ERROR})
          >= Cardinality({i \in 1..pos : Short(input[i])})

\* a line whose maximum, minimum and mean temperature fields are all filled
TemperaturesPresent(line) == Len(line) >= 8 => \A c \in 2..4 : line[c] # <<>>

(* C20: in the temperature job a line of at least 8 fields in which the
   maximum, the minimum or the mean temperature is empty yields no record
   under a data key, and stage 1's output (groups, day counts, averages) is
   that of the batch without such lines; a line whose three temperatures
   are numbers and whose date parses yields one record under its month's
   key carrying the three values, a value of 0 included. *)
C20_EmptyTemperatureExcluded ==
    job = "temperature" =>
        /\ \A i \in 1..Len(input) :
              LET line    == input[i]
                  emitted == mapper_parse_data(line)
              IN  /\ ~TemperaturesPresent(line) =>
                        \A n \in 1..Len(emitted) : emitted[n].key = ERROR
                  /\ ValidTemperature(line) =>
                        /\ Len(emitted) = 1
                        /\ emitted[1].key = month_key(line[8], date_year(line[1]),
                                                      date_month(line[1]))
                        /\ emitted[1].value.d = [temp_max  |-> int(line[2]),
                                                 temp_min  |-> int(line[3]),
                                                 temp_mean |-> int(line[4]),
                                                 count     |-> 1]
        /\ Stage1Complete =>
              out1 = reduce_all1(job, map_all1(job, SelectSeq(input, TemperaturesPresent)))
        /\ Done => output = run(job, SelectSeq(input, TemperaturesPresent))

\* a finished run on a batch with a line without mean temperature and a
\* line whose minimum is 0: the row counts one day and its minimum is 0.0
C20_Witness ==
    /\ job = "temperature"
    /\ Done
    /\ \E i \in 1..Len(input) : ~TemperaturesPresent(input[i])
    /\ \E i \in 1..Len(input) : ValidTemperature(input[i]) /\ int(input[i][3]) = 0
    /\ \E r \in Range(output) : r.min_temp_recorded = 0 /\ r.total_days = 1


-----------------------------------------------------------------------------
\* the bijections of 1..n
Perms(n) == {p \in [1..n -> 1..n] : \A i, j \in 1..n : p[i] = p[j] => i = j}

\* the values in the order p
Permuted(values, p) == [i \in 1..Len(values) |-> values[p[i]]]

\* C12: every reducer is order-independent.  Once a stage's mapper has
\* finished, for every key of that stage and every permutation of the
\* values collected for it, the stage's reducer emits the records it emits
\* for the values in their order of arrival.
C12_OrderIndependent ==
    /\ Map1Done /\ reduced1 = 0 =>
          \A k \in Range(keys_of(shuffle1)) :
             LET values == values_of(shuffle1, k)
             IN  \A p \in Perms(Len(values)) :
                    step1_reducer(job, k, Permuted(values, p))
                        = step1_reducer(job, k, values)
    /\ Map2Done /\ reduced2 = 0 =>
          \A k \in Range(keys_of(shuffle2)) :
             LET values == values_of(shuffle2, k)
             IN  \A p \in Perms(Len(values)) :
                    step2_reducer(job, k, Permuted(values, p))
                        = step2_reducer(job, k, values)


-----------------------------------------------------------------------------
\* C15 as stated: a GET on /data/temperature whose year parameter is no
\* integer is answered with status 400, whatever the state of the data
\* files.
C15_InvalidYearRejected ==
    (/\ request.path = "/data/temperature"
     /\ "year" \in DOMAIN request.args
     /\ ~IsNumeric(request.args["year"]))
        => response.status = 400

\* pat occurs in text, letter for letter, ignoring case
IsSubstring(text, pat) ==
    \E o \in 0..(Len(text) - Len(pat)) :
        \A i \in 1..Len(pat) : lower(pat[i]) = lower(text[o + i])

\* C16 as stated: every record of a 200 answer of /data/temperature or
\* /data/precipitation satisfies every filter the request supplied: its
\* city contains the city parameter ignoring case, its year is the integer
\* of the year parameter and, for precipitation, its season contains the
\* season parameter ignoring case.
C16_FiltersHold ==
    (/\ request.path \in {"/data/temperature", "/data/precipitation"}
     /\ response.status = 200)
        => \A i \in 1..Len(response.body.data) :
              LET r    == response.body.data[i]
                  args == request.args
              IN  /\ "city" \in DOMAIN args => IsSubstring(r.city, args["city"])
                  /\ "year" \in DOMAIN args /\ IsNumeric(args["year"])
                        => r.year = int(args["year"])
                  /\ request.path = "/data/precipitation" /\ "season" \in DOMAIN args
                        => IsSubstring(r.season, args["season"])

\* C17 as stated: GET /health is answered with status 200 and a body that
\* holds the key api_status, for every state of the three data files.
C17_HealthAlwaysOnline ==
    request.path = "/health"
        => response.status = 200 /\ "api_status" \in DOMAIN response.body


-----------------------------------------------------------------------------
\* the input lines of at least 8 fields and a valid date that are no header
Dated == {i \in 1..Len(input) :
             /\ Len(input[i]) >= 8
             /\ ~is_header(input[i])
             /\ strptime_ok(input[i][1])}

\* those without a precipitation amount, with a numeric one, with another
NoAmount == {i \in Dated : input[i][5] = <<>>}
Amount == {i \in Dated : IsNumeric(input[i][5])}
BadAmount == {i \in Dated : input[i][5] # <<>> /\ ~IsNumeric(input[i][5])}

AmountOf(i) == int(input[i][5])

\* the lines of a set that fall into the group of a stage-1 key
InGroup(S, k) ==
    {i \in S : month_key(input[i][8], date_year(input[i][1]),
                         date_month(input[i][1])) = k}

(* C21: in the precipitation job a line of at least 8 fields with a valid
   date and an empty precipitation field is kept with the value 0: in the
   statistic of its group it counts in total_days and in the divisor of
   avg_daily_precipitation, not in days_with_rain, and it adds nothing to
   monthly_total; a line whose precipitation field is neither empty nor a
   number counts nowhere, and a group of such lines alone has no
   statistic.  Stated of the output of stage 1 when it completes. *)
C21_EmptyPrecipitationIsZero ==
    (job = "precipitation" /\ Stage1Complete) =>
        /\ \A j \in 1..Len(out1) :
              LET d    == out1[j].value.d
                  none == InGroup(NoAmount, out1[j].key)
                  some == InGroup(Amount, out1[j].key)
                  N    == Cardinality(none) + Cardinality(some)
              IN  /\ d.total_days = N
                  /\ d.days_with_rain = Cardinality({i \in some : AmountOf(i) > 0})
                  /\ d.monthly_total = 100 * SumOver(some, AmountOf)
                  /\ IsRounded(d.avg_daily_precipitation, SumOver(some, AmountOf), N)
        /\ \A i \in NoAmount \cup Amount :
              \E j \in 1..Len(out1) : i \in InGroup(NoAmount \cup Amount, out1[j].key)
        /\ \A i \in BadAmount :
              (InGroup(NoAmount \cup Amount,
                       month_key(input[i][8], date_year(input[i][1]),
                                 date_month(input[i][1]))) = {})
                 => \A j \in 1..Len(out1) : i \notin InGroup(BadAmount, out1[j].key)

\* a day with 5 mm, a day without amount and a day whose amount is no
\* number: 2 days, 1 with rain, average 2.5
C21_Witness ==
    /\ job = "precipitation"
    /\ Stage1Complete
    /\ NoAmount # {} /\ BadAmount # {}
    /\ \E j \in 1..Len(out1) :
          /\ out1[j].value.d.total_days = 2
          /\ out1[j].value.d.days_with_rain = 1
          /\ out1[j].value.d.monthly_total = 500
          /\ out1[j].value.d.avg_daily_precipitation = 250


-----------------------------------------------------------------------------
\* the fields of a stage-1 precipitation statistic and those the season
\* mapper adds
StatFields == {"monthly_total", "days_with_rain", "max_daily_precipitation",
               "avg_daily_precipitation", "total_days"}
AddedFields == {"city", "year", "month", "season"}

(* C22: in the precipitation job every monthly statistic of a (city, year,
   month) that the season mapper regroups (the j-th record of stage 1 gives
   the j-th record of the stage-2 mapper) is emitted under the key
   city_season_year, with season the season of the month, carries city,
   year, month and season of that (city, year, month), and carries the five
   fields of the statistic with the values stage 1 gave them; it has no
   other field. *)
C22_StatisticCarriedUnchanged ==
    job = "precipitation" =>
        \A j \in 1..pos2 :
            shuffle2[j].key # ERROR =>
                \E t \in Triples(ValidRecords) :
                    LET d == shuffle2[j].value.d
                    IN  /\ out1[j].key = month_key(t[1], t[2], t[3])
                        /\ shuffle2[j].key
                              = concat(<<t[1], <<"_">>, SeasonOf(t[3]), <<"_">>, str(t[2])>>)
                        /\ d.city = t[1] /\ d.year = t[2] /\ d.month = t[3]
                        /\ d.season = SeasonOf(t[3])
                        /\ DOMAIN d = StatFields \cup AddedFields
                        /\ \A f \in StatFields : d[f] = out1[j].value.d[f]
                        /\ DOMAIN out1[j].value.d = StatFields

\* a statistic of three days, two of them with rain, regrouped
C22_Witness ==
    /\ job = "precipitation"
    /\ \E j \in 1..pos2 :
          /\ shuffle2[j].key # ERROR
          /\ shuffle2[j].value.d.total_days = 3
          /\ shuffle2[j].value.d.days_with_rain = 2
          /\ shuffle2[j].value.d.monthly_total = 1000
          /\ shuffle2[j].value.d.month = 1


-----------------------------------------------------------------------------
\* the columns of a line, counted from 1, that a job reads: the date, its
\* measurements and the city
ColumnsRead(j) == IF j = "temperature" THEN {1, 2, 3, 4, 8} ELSE {1, 5, 8}

\* the values written into the other columns, which hold numbers in the
\* complete records: nothing and no number
FillValues == {<<>>, <<"x">>}

\* the lines that differ from line in at most one column, which the job
\* does not read
LineVariants(j, line) ==
    {line} \cup
    {[line EXCEPT ![c] = v] : c \in (1..Len(line)) \ ColumnsRead(j), v \in FillValues}

\* the batches that differ from lines only in columns the job does not
\* read, in at most one column of each line
BatchVariants(j, lines) ==
    {b \in [1..Len(lines) -> UNION {LineVariants(j, lines[i]) : i \in 1..Len(lines)}] :
        \A i \in 1..Len(lines) : b[i] \in LineVariants(j, lines[i])}

(* C23: the output of the temperature job depends only on the date, the
   three temperatures and the city of each line, and the output of the
   precipitation job only on the date, the precipitation and the city: a
   batch that differs from the input of a finished run only in other
   columns, holding nothing or no number where the input holds a number or
   a column name, gives the output of that run. *)
C23_OtherColumnsIgnored ==
    Done => \A b \in BatchVariants(job, input) : run(job, b) = output

\* a finished run of two records of which one is written, the other having
\* no number in a column the job does not read
C23_Witness ==
    /\ Done
    /\ Len(input) = 2
    /\ Len(output) = 1
    /\ \E i \in 1..2 : \E c \in (1..8) \ ColumnsRead(job) :
          input[i] # HeaderLine /\ ~IsNumeric(input[i][c])

-----------------------------------------------------------------------------
\* input line i is one of the daily records output row k was computed from
ContributesTo(i, k) ==
    /\ ValidLine(input[i])
    /\ IF job = "temperature"
       THEN RowTriple(output[k]) = Triple(input[i])
       ELSE /\ output[k].city = Triple(input[i])[1]
            /\ output[k].year = Triple(input[i])[2]
            /\ output[k].season = SeasonOf(Triple(input[i])[3])

RowsOf(i) == {k \in 1..Len(output) : ContributesTo(i, k)}

LinesOf(k) == {i \in 1..Len(input) : ContributesTo(i, k)}

\* every line is counted in one output row or in none, a line that is no
\* valid record in none, and every row counts just the lines (the
\* precipitation job: the months of the lines) that contribute to it
EveryLineAccounted ==
    /\ \A i \in 1..Len(input) :
          /\ Cardinality(RowsOf(i)) <= 1
          /\ ~ValidLine(input[i]) => RowsOf(i) = {}
    /\ \A k \in 1..Len(output) :
          IF job = "temperature"
          THEN output[k].total_days = Cardinality(LinesOf(k))
          ELSE output[k].months_in_season =
                  Cardinality({Triple(input[i]) : i \in LinesOf(k)})

(* C24: every run on a finite batch, whatever valid, malformed, header and
   short lines it mixes, eventually completes both stages; no exception
   ever escapes a mapper or a reducer; and when the run is over every input
   line is counted in exactly one output row or has been dropped. *)
C24_RunCompletes ==
    /\ <>Done
    /\ [](~raised)
    /\ [](Done => EveryLineAccounted)

\* a finished run on a batch of the header line, a line that is short or
\* malformed and a valid record, which was counted in a row
C24_Witness ==
    /\ Done
    /\ HeaderLine \in Range(input)
    /\ \E i \in 1..Len(input) : ~ValidLine(input[i]) /\ input[i] # HeaderLine
    /\ \E i \in 1..Len(input) : Cardinality(RowsOf(i)) = 1

-----------------------------------------------------------------------------
\* the lines that are valid records, and the records of stage 1 that carry a
\* key; the mapper emits the n-th keyed record for the n-th valid line
ValidIndices == {i \in 1..Len(input) : ValidLine(input[i])}

KeyedIndices == {p \in 1..Len(shuffle1) : shuffle1[p].key # ERROR}

Rank(S, x) == Cardinality({y \in S : y <= x})

\* the stage-1 key under which valid line i was emitted
KeyOfLine(i) ==
    shuffle1[CHOOSE p \in KeyedIndices :
                 Rank(KeyedIndices, p) = Rank(ValidIndices, i)].key

(* C25: when the stage-1 mapper has read the whole batch, two valid records
   carry the same stage-1 key, and so are in the same stage-1 group, exactly
   when they agree on city, year and month, also for city names that hold
   underscores or digits. *)
C25_KeyInjective ==
    Map1Done =>
        /\ Cardinality(KeyedIndices) = Cardinality(ValidIndices)
        /\ \A i, j \in ValidIndices :
              (KeyOfLine(i) = KeyOfLine(j)) <=> (Triple(input[i]) = Triple(input[j]))

\* two days of one month share a key, and that month of the city "X" has
\* another key than the month of the city "X_2023" or of another year
C25_Witness ==
    /\ Map1Done
    /\ \E i, j \in ValidIndices :
          i # j /\ Triple(input[i]) = Triple(input[j]) /\ KeyOfLine(i) = KeyOfLine(j)
    /\ \E i, j \in ValidIndices :
          /\ input[i][8] = X_city
          /\ \/ input[j][8] = X_2023
             \/ (input[j][8] = X_city /\ Triple(input[j])[2] # Triple(input[i])[2])
          /\ KeyOfLine(i) # KeyOfLine(j)

-----------------------------------------------------------------------------
\* the records regrouped so far under a seasonal key
SeasonalRecords == {p \in 1..Len(shuffle2) : shuffle2[p].key # ERROR}

(* C26: in the precipitation job every record regrouped under a
   (city, season, year) key is of a month of that season, no two records
   under one key are of the same month, and every output row has
   months_in_season 1, 2 or 3. *)
C26_AtMostThreeMonths ==
    job = "precipitation" =>
        /\ \A p \in SeasonalRecords :
              LET d == shuffle2[p].value.d
              IN  \E label \in SeasonLabels :
                      /\ shuffle2[p].key
                            = concat(<<d.city, <<"_">>, label, <<"_">>, str(d.year)>>)
                      /\ d.month \in SeasonMonths(label)
        /\ \A p, q \in SeasonalRecords :
              (p # q /\ shuffle2[p].key = shuffle2[q].key)
                  => shuffle2[p].value.d.month # shuffle2[q].value.d.month
        /\ Done => \A k \in 1..Len(output) : output[k].months_in_season \in 1..3

\* four days of December, January and February of one year, two of them of
\* one month, written as one row of three months
C26_Witness ==
    /\ job = "precipitation" /\ Done
    /\ Len(input) = 4
    /\ \A i \in 1..Len(input) : Triple(input[i])[2] = 2023 /\ Triple(input[i])[3] \in {12, 1, 2}
    /\ Len(output) = 1
    /\ output[1].months_in_season = 3

-----------------------------------------------------------------------------
\* the rows written for a city, a season and a year
RowsFor(city, season, year) ==
    {k \in 1..Len(output) : RowSeason(output[k]) = <<city, season, year>>}

(* C27: the precipitation job groups the seasons by calendar year: every
   regrouped monthly record carries the year of its own date, the records
   under one seasonal key are all of one year, and a finished run's row for
   (city, season, Y) counts exactly the months of that season whose dates
   are in Y, so December of Y is counted with January and February of Y and
   not with those of Y + 1. *)
C27_SeasonsByCalendarYear ==
    job = "precipitation" =>
        LET R == ValidRecords
        IN  /\ \A p \in SeasonalRecords :
                  LET d == shuffle2[p].value.d
                  IN  /\ <<d.city, d.year, d.month>> \in Triples(R)
                      /\ \A q \in SeasonalRecords :
                            shuffle2[q].key = shuffle2[p].key
                                => shuffle2[q].value.d.year = d.year
            /\ Done =>
                  \A k \in 1..Len(output) :
                      LET G == SeasonGroup(R, output[k])
                          Total(t) == MonthlyTotal(R, t)
                      IN  /\ output[k].months_in_season = Cardinality(G)
                          /\ output[k].total_seasonal_precipitation = SumOver(G, Total)

\* December and January of 2023 written as one row of two months, and
\* January of 2024 as a row of its own
C27_Witness ==
    /\ job = "precipitation" /\ Done
    /\ <<Bogota, 2023, 12>> \in Triples(ValidRecords)
    /\ <<Bogota, 2023, 1>> \in Triples(ValidRecords)
    /\ <<Bogota, 2024, 1>> \in Triples(ValidRecords)
    /\ \E k \in RowsFor(Bogota, Verano, 2023) : output[k].months_in_season = 2
    /\ \E k \in RowsFor(Bogota, Verano, 2024) : output[k].months_in_season = 1

=============================================================================
